---- MODULE Spec2Model ----
(***************************************************************************)
(* A model of nexobot's core: the URL classifier (validators.py), the      *)
(* sitemap traverser (sitemap.py) and the scrape-many composition          *)
(* (scraper.py).                                                           *)
(*                                                                         *)
(* Text is a sequence of one-character strings, so that strip, split,      *)
(* lower-casing, substring search and the regular expressions of the code  *)
(* are computed character by character.  The URLs of the model use the     *)
(* characters a-z, A-Z, 0-9 and  - . / : ? & =  only: no fragment (#),     *)
(* no path parameters (;), no percent-escapes or '+', no port or userinfo. *)
(***************************************************************************)
EXTENDS Integers, Sequences, FiniteSets, TLC

VARIABLES
    url,             \* classifier: the URL handed to URLValidator
    min_path_depth,  \* classifier: URLValidator.min_path_depth
    answer,          \* classifier: what the last call returned
    web,             \* the sitemap document (or fetch failure) behind each URL
    url_filter,      \* get_all_urls argument: <<>> is None, else a pattern
    max_urls,        \* get_all_urls argument: <<>> is None, else <<n>>
    gen,             \* the generator get_all_urls returned: where it stands
    received,        \* the entries the consumer has pulled, in order
    fetched,         \* the sitemap fetches issued, in order
    pulls,           \* the number of next() calls the consumer has made
    outcome,         \* how the last next() ended: entry, stop or error
    stopped,         \* the consumer has given the generator up
    pages,           \* what a GET of each page URL returns
    max_articles,    \* scrape_from_sitemap argument: <<>> is None, else <<n>>
    sgen,            \* the generator scrape_from_sitemap returned
    articles,        \* the articles the consumer has pulled, in order
    page_fetched,    \* the page fetches issued, in order
    scrape_call,     \* the one call of Scraper.scrape: arguments and outcome
    article_blocks,  \* _extract_sections argument: the blocks find_all gives
    sections,        \* what _extract_sections returned: <<>> before the call
    page_soup,       \* extract_tags argument: what the page's tag sources hold
    tags,            \* what extract_tags returned: <<>> before the call
    content_dict,    \* is_valid_article argument: the extracted content
    validity,        \* what is_valid_article returned: <<>> before the call
    html_content,    \* what _extract_html_content returned, once called
    runs,            \* the calls of get_all_urls made on the one SitemapParser
    earlier,         \* what the call before the present one gave and fetched
    prevent_duplicates, \* config: WorkerManager hands every worker a history
    storage_ok,      \* the output sink takes records: what save returns
    manager,         \* WorkerManager: running, workers, where start() stands
    worker_urls,     \* DomainWorker.urls of each worker
    threads,         \* each DomainWorker thread: where it stands, its locals
    scraped_urls,    \* HistoryManager.scraped_urls, shared by the workers
    history_file,    \* the history file: the URLs it holds, who has it open
    saved            \* how often ArticleStorage.save was given each URL

classVars == <<url, min_path_depth, answer>>
travVars == <<web, url_filter, max_urls, gen, received, fetched, pulls,
              outcome, stopped>>
scrapeVars == <<pages, max_articles, sgen, articles, page_fetched,
                scrape_call>>
extractVars == <<article_blocks, sections, page_soup, tags,
                 content_dict, validity, html_content>>
retraVars == <<runs, earlier>>
workerVars == <<prevent_duplicates, storage_ok, manager, worker_urls, threads,
                scraped_urls, history_file, saved>>
vars == <<classVars, travVars, scrapeVars, extractVars, retraVars, workerVars>>

----------------------------------------------------------------------------
(* Bounds of the model.                                                    *)

\* longest generated path, in '/'-separated segments
MaxSegs == 3
\* largest min_path_depth a caller passes (the default is 3)
MaxMinDepth == 3
\* most child sitemaps a sitemap index lists
MaxChildren == 2
\* largest max_urls a caller passes
MaxMaxUrls == 3
\* scrape_from_sitemap: the largest max_articles passed
MaxArticles == 2
\* scrape_from_sitemap: the longest list of children of the index scraped
MaxScrapeChildren == 2
\* _extract_sections: the most blocks in the content area
MaxBlocks == 5
\* the blocks of a content area handed to _extract_html_content
MaxHtmlBlocks == 2
\* is_valid_article: the most sections in the content checked
MaxSections == 2
\* extract_tags: the most elements of one kind (article:tag metas, rel=tag
\* anchors, tag containers, anchors in a container) in the page
MaxTagItems == 1

----------------------------------------------------------------------------
(* Text.                                                                   *)

UpperChars == <<"A","B","C","D","E","F","G","H","I","J","K","L","M",
                "N","O","P","Q","R","S","T","U","V","W","X","Y","Z">>
LowerChars == <<"a","b","c","d","e","f","g","h","i","j","k","l","m",
                "n","o","p","q","r","s","t","u","v","w","x","y","z">>
Digits == {"0","1","2","3","4","5","6","7","8","9"}

\* str.lower() of one character
LowerChar(c) ==
    IF \E i \in 1..26 : UpperChars[i] = c
    THEN LowerChars[CHOOSE i \in 1..26 : UpperChars[i] = c]
    ELSE c

\* str.lower()
RECURSIVE Lower(_)
Lower(s) == IF s = <<>> THEN <<>> ELSE <<LowerChar(Head(s))>> \o Lower(Tail(s))

\* str.isdigit(): non-empty and every character a digit
IsDigit(s) == Len(s) > 0 /\ \A i \in 1..Len(s) : s[i] \in Digits

\* str.startswith / str.endswith
StartsWith(s, p) == Len(p) <= Len(s) /\ SubSeq(s, 1, Len(p)) = p
EndsWith(s, p) ==
    Len(p) <= Len(s) /\ SubSeq(s, Len(s) - Len(p) + 1, Len(s)) = p

\* p in s
Contains(s, p) ==
    \E i \in 1..(Len(s) - Len(p) + 1) : SubSeq(s, i, i + Len(p) - 1) = p

\* str.find(c) + 1 for a character c: the first position of c, 0 when absent
RECURSIVE FindFrom(_, _, _)
FindFrom(s, c, i) ==
    IF i > Len(s) THEN 0 ELSE IF s[i] = c THEN i ELSE FindFrom(s, c, i + 1)
Find(s, c) == FindFrom(s, c, 1)

\* str.strip(c) for a character c
RECURSIVE LStrip(_, _)
LStrip(s, c) == IF Len(s) > 0 /\ s[1] = c THEN LStrip(Tail(s), c) ELSE s
RECURSIVE RStrip(_, _)
RStrip(s, c) ==
    IF Len(s) > 0 /\ s[Len(s)] = c
    THEN RStrip(SubSeq(s, 1, Len(s) - 1), c)
    ELSE s
Strip(s, c) == RStrip(LStrip(s, c), c)

\* str.split(c) for a character c: "" splits to [""]
RECURSIVE SplitAcc(_, _, _, _)
SplitAcc(s, c, i, cur) ==
    IF i > Len(s) THEN <<cur>>
    ELSE IF s[i] = c THEN <<cur>> \o SplitAcc(s, c, i + 1, <<>>)
    ELSE SplitAcc(s, c, i + 1, Append(cur, s[i]))
Split(s, c) == SplitAcc(s, c, 1, <<>>)

\* the concatenation of a sequence of texts
RECURSIVE Concat(_)
Concat(ss) == IF ss = <<>> THEN <<>> ELSE Head(ss) \o Concat(Tail(ss))

----------------------------------------------------------------------------
(* urllib.parse as validators.py uses it.                                  *)

\* urlparse(url): scheme up to ':', netloc after '//' up to the first '/'
\* or '?', then the query after the first '?'
urlparse(u) ==
    LET colon == Find(u, ":")
        hasScheme == colon > 1 /\ Find(u, "/") \notin 1..colon
                               /\ Find(u, "?") \notin 1..colon
        rest0 == IF hasScheme THEN SubSeq(u, colon + 1, Len(u)) ELSE u
        hasNetloc == StartsWith(rest0, <<"/","/">>)
        afterSlashes == SubSeq(rest0, 3, Len(rest0))
        slash == Find(afterSlashes, "/")
        mark == Find(afterSlashes, "?")
        cut == IF slash = 0 /\ mark = 0 THEN Len(afterSlashes) + 1
               ELSE IF slash = 0 THEN mark
               ELSE IF mark = 0 THEN slash
               ELSE IF slash < mark THEN slash ELSE mark
        netloc == IF hasNetloc THEN SubSeq(afterSlashes, 1, cut - 1) ELSE <<>>
        rest1 == IF hasNetloc
                 THEN SubSeq(afterSlashes, cut, Len(afterSlashes))
                 ELSE rest0
        q == Find(rest1, "?")
    IN  [scheme |-> IF hasScheme THEN Lower(SubSeq(u, 1, colon - 1)) ELSE <<>>,
         netloc |-> netloc,
         path   |-> IF q = 0 THEN rest1 ELSE SubSeq(rest1, 1, q - 1),
         query  |-> IF q = 0 THEN <<>> ELSE SubSeq(rest1, q + 1, Len(rest1))]

\* the keys of parse_qs(query): the query is split at '&', each piece at its
\* first '='; keep_blank_values is False, so a piece with an empty value
\* (or without '=') is dropped
parse_qs_keys(query) ==
    LET pieces == Split(query, "&")
        name(p) == IF Find(p, "=") = 0 THEN p ELSE SubSeq(p, 1, Find(p, "=") - 1)
        value(p) == IF Find(p, "=") = 0 THEN <<>>
                    ELSE SubSeq(p, Find(p, "=") + 1, Len(p))
    IN  {name(pieces[i]) : i \in {j \in 1..Len(pieces) :
                                      pieces[j] # <<>> /\ value(pieces[j]) # <<>>}}

----------------------------------------------------------------------------
(* URLValidator.                                                           *)

PAGINATION_PARAMS ==
    { <<"p","a","g","e">>, <<"p","a","g","e","d">>, <<"p">>,
      <<"o","f","f","s","e","t">> }

BLOG_SUBDOMAINS ==
    { <<"b","l","o","g">>, <<"n","e","w","s">>,
      <<"a","r","t","i","c","l","e","s">>, <<"c","o","n","t","e","n","t">> }

\* s without one trailing '/', for a pattern ending in /?$
OptSlash(s) ==
    IF Len(s) > 0 /\ s[Len(s)] = "/" THEN SubSeq(s, 1, Len(s) - 1) ELSE s

\* ARCHIVE_PATTERNS[i], compiled with re.IGNORECASE, searched in path
ArchivePattern(i, path) ==
    LET p == Lower(path)
        segs == Split(OptSlash(p), "/")
    IN  CASE i = 0 ->  \* ^/page/\d+/?$
                 Len(segs) = 3 /\ segs[1] = <<>>
                 /\ segs[2] = <<"p","a","g","e">> /\ IsDigit(segs[3])
          [] i = 1 ->  \* ^/[^/]+/?$
                 Len(segs) = 2 /\ segs[1] = <<>> /\ segs[2] # <<>>
          [] i = 2 ->  \* ^/[^/]+/page/\d+/?$
                 Len(segs) = 4 /\ segs[1] = <<>> /\ segs[2] # <<>>
                 /\ segs[3] = <<"p","a","g","e">> /\ IsDigit(segs[4])
          [] i = 3 -> StartsWith(p, <<"/","c","a","t","e","g","o","r","y","/">>)
          [] i = 4 -> StartsWith(p, <<"/","t","a","g","/">>)
          [] i = 5 -> StartsWith(p, <<"/","a","u","t","h","o","r","/">>)
          [] i = 6 -> StartsWith(p, <<"/","a","r","c","h","i","v","e","/">>)
          [] i = 7 -> StartsWith(p, <<"/","s","e","a","r","c","h">>)
          [] i = 8 ->  \* /feed/?$
                 EndsWith(OptSlash(p), <<"/","f","e","e","d">>)
          [] i = 9 ->  \* \.(xml|rss)$
                 EndsWith(p, <<".","x","m","l">>) \/ EndsWith(p, <<".","r","s","s">>)

get_path_depth(u) ==
    LET path == Strip(urlparse(u).path, "/")
    IN  IF path = <<>> THEN 0 ELSE Len(Split(path, "/"))

has_pagination(u) ==
    LET parsed == urlparse(u)
        path == parsed.path
    IN  \/ \E param \in PAGINATION_PARAMS : param \in parse_qs_keys(parsed.query)
        \* re.search(r'/page/\d+', path), case-sensitive
        \/ \E i \in 1..Len(path) :
              /\ i + 6 <= Len(path)
              /\ SubSeq(path, i, i + 5) = <<"/","p","a","g","e","/">>
              /\ path[i + 6] \in Digits

has_subdomain(u) ==
    LET parts == Split(Lower(urlparse(u).netloc), ".")
    IN  /\ Len(parts) >= 3
        /\ parts[1] # <<"w","w","w">>
        /\ parts[1] \in BLOG_SUBDOMAINS

\* matches_archive_pattern without the blog-subdomain exemption of pattern 1
matches_archive_pattern_no_exemption(u) ==
    \E i \in 0..9 : ArchivePattern(i, urlparse(u).path)

matches_archive_pattern(u) ==
    LET path == urlparse(u).path
        is_subdomain == has_subdomain(u)
    IN  \E i \in 0..9 : ~(i = 1 /\ is_subdomain) /\ ArchivePattern(i, path)

\* is_root_domain looking at the path alone
is_root_domain_ignoring_query(u) == Strip(urlparse(u).path, "/") = <<>>

is_root_domain(u) ==
    LET parsed == urlparse(u)
    IN  Strip(parsed.path, "/") = <<>> /\ parsed.query = <<>>

\* is_single_post with the archive check moved before the pagination check
is_single_post_archive_first(u, minDepth) ==
    LET path == Strip(urlparse(u).path, "/")
        min_depth == IF has_subdomain(u) THEN 1 ELSE minDepth
        path_parts == Split(path, "/")
        last_segment == path_parts[Len(path_parts)]
    IN  IF is_root_domain(u) THEN <<FALSE, "root">>
        ELSE IF matches_archive_pattern(u) THEN <<FALSE, "archive">>
        ELSE IF has_pagination(u) THEN <<FALSE, "pagination">>
        ELSE IF get_path_depth(u) < min_depth THEN <<FALSE, "shallow">>
        ELSE IF last_segment = <<>> \/ IsDigit(last_segment)
             THEN <<FALSE, "noslug">>
        ELSE <<TRUE, "valid">>

\* path.split('/') of the stripped path
url_path_parts(u) == Split(Strip(urlparse(u).path, "/"), "/")

\* path_parts[-1] if path_parts else ''
url_last_segment(u) == url_path_parts(u)[Len(url_path_parts(u))]

\* is_single_post returns (is_valid, reason); the reason texts are named
\* root, pagination, archive, shallow, noslug, valid
is_single_post(u, minDepth) ==
    IF is_root_domain(u) THEN <<FALSE, "root">>
    ELSE IF has_pagination(u) THEN <<FALSE, "pagination">>
    ELSE IF matches_archive_pattern(u) THEN <<FALSE, "archive">>
    ELSE IF get_path_depth(u) < (IF has_subdomain(u) THEN 1 ELSE minDepth)
         THEN <<FALSE, "shallow">>
    ELSE IF url_last_segment(u) = <<>> \/ IsDigit(url_last_segment(u))
         THEN <<FALSE, "noslug">>
    ELSE <<TRUE, "valid">>

----------------------------------------------------------------------------
(* The URLs the classifier is run on.                                      *)

Hosts ==
    { <<"w","w","w",".","e","x","a","m","p","l","e",".","c","o","m">>,
      <<"b","l","o","g",".","e","x","a","m","p","l","e",".","c","o","m">>,
      <<"N","e","w","s",".","e","x","a","m","p","l","e",".","c","o",".","i","d">>,
      <<"b","l","o","g",".","c","o","m">> }

\* segments every generated path is built from ("" gives doubled and
\* trailing slashes)
CoreSegs == { <<>>, <<"1","2">>, <<"m","y","-","p","o","s","t">> }

\* "/" + "/".join(segs)
RECURSIVE JoinPath(_)
JoinPath(segs) ==
    IF segs = <<>> THEN <<>> ELSE <<"/">> \o Head(segs) \o JoinPath(Tail(segs))

GeneratedPaths ==
    UNION { { JoinPath(ss) : ss \in [1..n -> CoreSegs] } : n \in 0..MaxSegs }

\* paths for pagination and for the archive patterns
ArchivePaths ==
    LET a == <<"a">>
        post == <<"m","y","-","p","o","s","t">>
        page == <<"p","a","g","e">>
    IN  { JoinPath(<< page >>),
          JoinPath(<< page, <<"1","2">> >>),
          JoinPath(<< page, <<"1","2">>, <<>> >>),
          JoinPath(<< post, page, <<"1","2">> >>),
          JoinPath(<< a, a, page, <<"1","2">>, post >>),
          JoinPath(<< a, a, page, post >>),
          JoinPath(<< <<"c","a","t","e","g","o","r","y">>, a, post >>),
          JoinPath(<< a, <<"C","a","t","e","g","o","r","y">>, post >>),
          JoinPath(<< <<"T","a","g">>, a, post >>),
          JoinPath(<< <<"a","u","t","h","o","r">>, a, post >>),
          JoinPath(<< <<"a","r","c","h","i","v","e">>, a, post >>),
          JoinPath(<< <<"s","e","a","r","c","h">> >>),
          JoinPath(<< <<"s","e","a","r","c","h","-","t","i","p","s">> >>),
          JoinPath(<< <<"s","e","a","r","c","h","i","n","g">>, a, post >>),
          JoinPath(<< <<"f","e","e","d">> >>),
          JoinPath(<< a, a, <<"f","e","e","d">> >>),
          JoinPath(<< a, a, <<"f","e","e","d">>, <<>> >>),
          JoinPath(<< a, a, <<"m","y","-","f","e","e","d">> >>),
          JoinPath(<< <<"p","o","s","t",".","x","m","l">> >>),
          JoinPath(<< a, a, <<"n","e","w","s",".","R","S","S">> >>),
          JoinPath(<< <<"P","a","g","e">>, <<"1","2">> >>),
          JoinPath(<< a, <<"P","a","g","e">>, <<"1","2">>, post >>),
          JoinPath(<< a, <<"p","a","g","e">>, <<"1","2","x">>, post >>),
          JoinPath(<< a, a, post >>),
          JoinPath(<< <<"c","a","t","e","g","o","r","y">>, <<>> >>),
          JoinPath(<< a, <<>>, post >>) }

Queries ==
    { <<>>,
      <<"p","a","g","e","=","2">>,
      <<"p","a","g","e","=">>,
      <<"p">>,
      <<"q","=","x","&","o","f","f","s","e","t","=","1","0">>,
      <<"q","=","x">>,
      <<"P","a","g","e","=","2">>,
      <<"q","=","p","a","g","e","d">> }

MakeUrl(host, path, query) ==
    <<"h","t","t","p","s",":","/","/">> \o host \o path
        \o (IF query = <<>> THEN <<>> ELSE <<"?">> \o query)

Urls ==
    { MakeUrl(h, p, q) : h \in Hosts, p \in GeneratedPaths \cup ArchivePaths,
                         q \in Queries }

----------------------------------------------------------------------------
(* Sitemap documents.  A fetched document is a sitemap index (a list of    *)
(* child sitemap URLs), a URL set (a list of <url> elements, each with or  *)
(* without <loc>) or a failed fetch.  Of a SitemapEntry only url is kept:  *)
(* lastmod, changefreq and priority take no part in the traversal.         *)

Site == <<"h","t","t","p","s",":","/","/","x",".","c","o","m","/">>

RootUrl == Site \o <<"s","i","t","e","m","a","p",".","x","m","l">>
PostSitemap ==
    Site \o <<"p","o","s","t","-","s","i","t","e","m","a","p",".","x","m","l">>
PostSitemap2 ==
    Site \o <<"P","O","S","T","-","s","i","t","e","m","a","p","2",".","x","m","l">>
CategorySitemap ==
    Site \o <<"c","a","t","e","g","o","r","y","-","s","i","t","e","m","a","p",
              ".","x","m","l">>
TagSitemap ==
    Site \o <<"t","a","g","-","s","i","t","e","m","a","p",".","x","m","l">>
NewsSitemap ==
    Site \o <<"n","e","w","s","-","s","i","t","e","m","a","p",".","x","m","l">>

ChildUrls == {PostSitemap, PostSitemap2, CategorySitemap, TagSitemap, NewsSitemap}
SitemapUrls == {RootUrl} \cup ChildUrls

\* page URLs listed by the URL sets
PageMyPost == Site \o <<"a","/","b","/","m","y","-","p","o","s","t">>
PageTagNews == Site \o <<"t","a","g","/","n","e","w","s">>
PageOtherPost == Site \o <<"a","/","b","/","o","t","h","e","r","-","p","o","s","t">>

Loc(u) == [has_loc |-> TRUE, loc |-> u]
NoLoc == [has_loc |-> FALSE, loc |-> <<>>]

FailDoc == [kind |-> "fail", children |-> <<>>, urls |-> <<>>]
IndexDoc(children) == [kind |-> "index", children |-> children, urls |-> <<>>]
UrlsetDoc(urls) == [kind |-> "urlset", children |-> <<>>, urls |-> urls]

UrlsetA == UrlsetDoc(<<Loc(PageMyPost), Loc(PageTagNews)>>)
UrlsetB == UrlsetDoc(<<NoLoc, Loc(PageOtherPost)>>)
UrlsetC == UrlsetDoc(<<Loc(PageTagNews), Loc(PageMyPost), Loc(PageOtherPost)>>)
NestedIndex == IndexDoc(<<PostSitemap>>)

\* what each child sitemap URL may serve
DocsFor(u) ==
    CASE u = PostSitemap -> {FailDoc, UrlsetA, UrlsetB}
      [] u = PostSitemap2 -> {UrlsetA, UrlsetB}
      [] u = CategorySitemap -> {UrlsetA}
      [] u = TagSitemap -> {UrlsetB}
      [] u = NewsSitemap -> {FailDoc, UrlsetA, NestedIndex}

\* what a child sitemap URL serves when no index lists it
UnlistedDoc(u) == IF u = TagSitemap THEN UrlsetB ELSE UrlsetA

ChildLists == UNION { [1..n -> ChildUrls] : n \in 0..MaxChildren }

RootDocs == {FailDoc, UrlsetA, UrlsetC} \cup { IndexDoc(cs) : cs \in ChildLists }

Range(f) == { f[i] : i \in DOMAIN f }

\* the filter patterns passed: none, or the literal "post"
Filters == { <<>>, <<"p","o","s","t">> }

----------------------------------------------------------------------------
(* SitemapParser.                                                          *)

\* fetch_sitemap letting the request's exception through
fetch_sitemap_raising(u) ==
    IF web[u].kind = "fail"
    THEN [kind |-> "raise", children |-> <<>>, urls |-> <<>>]
    ELSE web[u]

\* fetch_sitemap: the parsed document, or None (kind "fail") when the
\* request raised requests.RequestException
fetch_sitemap(u) == web[u]

is_sitemap_index(soup) == soup.kind = "index"

parse_sitemap_index(soup) == soup.children

\* parse_urlset following a sitemap index to the first sitemap it lists
parse_urlset_descending(soup) ==
    LET doc == IF soup.kind = "index" /\ soup.children # <<>>
               THEN web[soup.children[1]] ELSE soup
        withLoc == SelectSeq(doc.urls, LAMBDA e : e.has_loc)
    IN  [i \in 1..Len(withLoc) |-> withLoc[i].loc]

\* parse_urlset returning the entries last to first
parse_urlset_reversed(soup) ==
    LET withLoc == SelectSeq(soup.urls, LAMBDA e : e.has_loc)
    IN  [i \in 1..Len(withLoc) |-> withLoc[Len(withLoc) + 1 - i].loc]

\* the <url> elements that have a <loc>, in document order
parse_urlset(soup) ==
    LET withLoc == SelectSeq(soup.urls, LAMBDA e : e.has_loc)
    IN  [i \in 1..Len(withLoc) |-> withLoc[i].loc]

IGNORE_KEYWORDS ==
    { <<"c","a","t","e","g","o","r","y">>, <<"t","a","g">>,
      <<"a","u","t","h","o","r">>, <<"u","s","e","r">>, <<"p","a","g","e">> }

\* 'post' in url.lower().split('/')[-1]
IsPostSitemap(u) ==
    LET pieces == Split(Lower(u), "/")
    IN  Contains(pieces[Len(pieces)], <<"p","o","s","t">>)

\* the keyword test looking for 'category' only
HasIgnoreKeyword_category_only(u) ==
    Contains(Lower(u), <<"c","a","t","e","g","o","r","y">>)

\* any(k in child_sitemap_url.lower() for k in ignore_keywords)
HasIgnoreKeyword(u) == \E k \in IGNORE_KEYWORDS : Contains(Lower(u), k)

\* if max_urls and count >= max_urls: None and 0 are both falsy
LimitReached(a, count) ==
    a.max_urls # <<>> /\ a.max_urls[1] # 0 /\ count >= a.max_urls[1]

\* if pattern and not pattern.search(entry.url): the pattern is a literal
FilteredOut(a, entryUrl) ==
    a.url_filter # <<>> /\ ~Contains(entryUrl, a.url_filter)

\* a generator of get_all_urls that has not run yet
NewGen ==
    [pc |-> "start", mode |-> "none", targets |-> <<>>, post |-> FALSE,
     ci |-> 0, entries |-> <<>>, ei |-> 0, count |-> 0]

\* the generator returns: StopIteration for the consumer
Finish(g, f) ==
    [g |-> [g EXCEPT !.pc = "done"], out |-> <<>>, fetches |-> f, raised |-> FALSE]

\* an exception leaves the generator: the consumer's next() raises it
Raise(g, f) ==
    [g |-> [g EXCEPT !.pc = "done"], out |-> <<>>, fetches |-> f, raised |-> TRUE]

RECURSIVE ChildLoop(_, _, _)
RECURSIVE EntryLoop(_, _, _)

\* for child_sitemap_url in target_sitemaps: at position g.ci
ChildLoop(a, g, f) ==
    IF g.ci > Len(g.targets) THEN Finish(g, f)
    ELSE IF LimitReached(a, g.count) THEN Finish(g, f)
    ELSE IF ~g.post /\ HasIgnoreKeyword(g.targets[g.ci])
         THEN ChildLoop(a, [g EXCEPT !.ci = @ + 1], f)
    ELSE LET child_soup == fetch_sitemap(g.targets[g.ci])
             f2 == Append(f, [url |-> g.targets[g.ci], ci |-> g.ci])
         IN  IF child_soup.kind = "raise" THEN Raise(g, f2)
             ELSE IF child_soup.kind = "fail"
                  THEN ChildLoop(a, [g EXCEPT !.ci = @ + 1], f2)
             ELSE EntryLoop(a, [g EXCEPT !.entries = parse_urlset(child_soup),
                                         !.ei = 1], f2)

\* the entry loop leaving the document at the first entry the filter
\* does not match
EntryLoop_breaking(a, g, f) ==
    IF g.ei > Len(g.entries) \/ LimitReached(a, g.count)
            \/ FilteredOut(a, g.entries[g.ei])
    THEN IF g.mode = "index"
         THEN ChildLoop(a, [g EXCEPT !.ci = @ + 1], f)
         ELSE Finish(g, f)
    ELSE [g |-> [g EXCEPT !.pc = "yield"], out |-> <<g.entries[g.ei]>>,
          fetches |-> f, raised |-> FALSE]

\* for entry in self.parse_urlset(...): at position g.ei, of a child of an
\* index (mode "index") or of the root URL set (mode "urlset")
EntryLoop(a, g, f) ==
    IF g.ei > Len(g.entries) \/ LimitReached(a, g.count)
    THEN IF g.mode = "index"
         THEN ChildLoop(a, [g EXCEPT !.ci = @ + 1], f)
         ELSE Finish(g, f)
    ELSE IF FilteredOut(a, g.entries[g.ei])
         THEN EntryLoop(a, [g EXCEPT !.ei = @ + 1], f)
    ELSE [g |-> [g EXCEPT !.pc = "yield"], out |-> <<g.entries[g.ei]>>,
          fetches |-> f, raised |-> FALSE]

\* the body of get_all_urls up to its loops
Start(a, g) ==
    LET soup == fetch_sitemap(a.sitemap_url)
        f == << [url |-> a.sitemap_url, ci |-> 0] >>
        child_sitemaps == parse_sitemap_index(soup)
        post_sitemaps == SelectSeq(child_sitemaps, IsPostSitemap)
        target_sitemaps == IF post_sitemaps # <<>> THEN post_sitemaps
                           ELSE child_sitemaps
    IN  IF soup.kind = "raise" THEN Raise(g, f)
        ELSE IF soup.kind = "fail" THEN Finish(g, f)
        ELSE IF is_sitemap_index(soup)
             THEN ChildLoop(a, [g EXCEPT !.mode = "index",
                                         !.targets = target_sitemaps,
                                         !.post = (post_sitemaps # <<>>),
                                         !.ci = 1], f)
        ELSE EntryLoop(a, [g EXCEPT !.mode = "urlset",
                                    !.entries = parse_urlset(soup),
                                    !.ei = 1], f)

\* next(generator): the generator runs from where it stands to its next
\* yield or to its end; after a yield it resumes with count += 1
Resume(a, g) ==
    CASE g.pc = "start" -> Start(a, g)
      [] g.pc = "yield" ->
            EntryLoop(a, [g EXCEPT !.count = @ + 1, !.ei = @ + 1], <<>>)
      [] g.pc = "done" -> Finish(g, <<>>)

----------------------------------------------------------------------------
(* ContentExtractor: section segmentation.                                 *)

\* the characters str.strip() removes
Whitespace == {" ", "\n", "\t"}

\* str.strip()
RECURSIVE LStripWs(_)
LStripWs(s) == IF Len(s) > 0 /\ s[1] \in Whitespace THEN LStripWs(Tail(s)) ELSE s
RECURSIVE RStripWs(_)
RStripWs(s) ==
    IF Len(s) > 0 /\ s[Len(s)] \in Whitespace
    THEN RStripWs(SubSeq(s, 1, Len(s) - 1))
    ELSE s
StripWs(s) == RStripWs(LStripWs(s))

\* sep.join(parts)
RECURSIVE JoinWith(_, _)
JoinWith(parts, sep) ==
    IF parts = <<>> THEN <<>>
    ELSE IF Len(parts) = 1 THEN parts[1]
    ELSE parts[1] \o sep \o JoinWith(Tail(parts), sep)

\* the blocks article.find_all(['p', 'h2', 'h3', 'ul', 'ol', 'table']) gives,
\* in document order: text is the block's get_text(strip=True), items the
\* texts of a list's li elements, rows the cell texts of a table's tr elements
P(text) == [name |-> "p", text |-> text, items |-> <<>>, rows |-> <<>>]
H2(text) == [name |-> "h2", text |-> text, items |-> <<>>, rows |-> <<>>]
H3(text) == [name |-> "h3", text |-> text, items |-> <<>>, rows |-> <<>>]
UL(items) == [name |-> "ul", text |-> <<>>, items |-> items, rows |-> <<>>]
TABLE(rows) == [name |-> "table", text |-> <<>>, items |-> <<>>, rows |-> rows]

\* the three characters the source puts before a list item (a bullet whose
\* encoding was damaged), between two blanks on the left and one on the right
BULLET == <<" ", " ", "*", "*", "*", " ">>

\* the blocks the content areas of the model are made of
Blocks ==
    { P(<<"a">>), P(<<>>), H2(<<"H">>), H3(<<"s">>), UL(<< <<"a">> >>), UL(<<>>),
      TABLE(<< << <<"a">>, <<"b">> >> >>) }

Articles == UNION { [1..n -> Blocks] : n \in 0..MaxBlocks }

\* " | ".join(cells) for each row that has cells, joined by newlines
RECURSIVE TableRows(_)
TableRows(rows) ==
    IF rows = <<>> THEN <<>>
    ELSE IF Head(rows) = <<>> THEN TableRows(Tail(rows))
    ELSE << JoinWith(Head(rows), <<" ", "|", " ">>) >> \o TableRows(Tail(rows))
_extract_table_text(table) == JoinWith(TableRows(table.rows), <<"\n">>)

\* "\n".join(f"  <bullet> {li text}" for li in items)
RECURSIVE BulletLines(_)
BulletLines(items) ==
    IF items = <<>> THEN <<>>
    ELSE <<BULLET \o Head(items)>> \o BulletLines(Tail(items))
ListText(element) == JoinWith(BulletLines(element.items), <<"\n">>)

ContentSection(heading, content, level) ==
    [heading |-> heading, content |-> content, level |-> level]

\* if current_section and current_section.content.strip(): sections.append
CloseSection(st) ==
    IF st.current_section # <<>> /\ StripWs(st.current_section[1].content) # <<>>
    THEN Append(st.sections, st.current_section[1])
    ELSE st.sections

\* current_section.content += more
AddContent(st, more) ==
    [st EXCEPT !.current_section[1].content = @ \o more]

\* a loop turn in which an h3 closes the open section and opens its own
SectionStep_h3_opening(st, element) ==
    IF element.name \in {"h2", "h3"}
    THEN [st EXCEPT !.sections = CloseSection(st),
                    !.current_section =
                        <<ContentSection(element.text, <<>>,
                                         IF element.name = "h2" THEN 2 ELSE 3)>>]
    ELSE IF element.name = "p"
    THEN IF element.text = <<>> THEN st
         ELSE IF st.current_section = <<>>
              THEN [st EXCEPT !.intro_parts = Append(@, element.text)]
              ELSE AddContent(st, <<"\n">> \o element.text)
    ELSE IF element.name \in {"ul", "ol"}
    THEN IF st.current_section # <<>>
         THEN AddContent(st, <<"\n">> \o ListText(element))
         ELSE [st EXCEPT !.intro_parts = Append(@, ListText(element))]
    ELSE IF element.name = "table"
    THEN IF st.current_section # <<>>
         THEN AddContent(st, <<"\n", "\n">> \o _extract_table_text(element) \o <<"\n">>)
         ELSE st
    ELSE st

\* one turn of the loop over the blocks of _extract_sections
SectionStep(st, element) ==
    IF element.name = "h2"
    THEN [st EXCEPT !.sections = CloseSection(st),
                    !.current_section =
                        <<ContentSection(element.text, <<>>, 2)>>]
    ELSE IF element.name = "h3" /\ st.current_section # <<>>
    THEN AddContent(st, <<"\n", "\n", "#", "#", "#", " ">> \o element.text \o <<"\n">>)
    ELSE IF element.name = "p"
    THEN IF element.text = <<>> THEN st
         ELSE IF st.current_section = <<>>
              THEN [st EXCEPT !.intro_parts = Append(@, element.text)]
              ELSE AddContent(st, <<"\n">> \o element.text)
    ELSE IF element.name \in {"ul", "ol"}
    THEN IF st.current_section # <<>>
         THEN AddContent(st, <<"\n">> \o ListText(element))
         ELSE [st EXCEPT !.intro_parts = Append(@, ListText(element))]
    ELSE IF element.name = "table"
    THEN IF st.current_section # <<>>
         THEN AddContent(st, <<"\n", "\n">> \o _extract_table_text(element) \o <<"\n">>)
         ELSE st
    ELSE st

RECURSIVE SectionLoop(_, _, _)
SectionLoop(blocks, i, st) ==
    IF i > Len(blocks) THEN st
    ELSE CHOOSE done \in
            { SectionLoop(blocks, i + 1, next) :
                next \in {SectionStep(st, blocks[i])} } : TRUE

\* ContentExtractor._extract_sections(article)
_extract_sections(blocks) ==
    LET st == SectionLoop(blocks, 1,
                 [intro_parts |-> <<>>, current_section |-> <<>>,
                  sections |-> <<>>])
        sects == CloseSection(st)
        intro_text == JoinWith(st.intro_parts, <<"\n", "\n">>)
    IN  IF StripWs(intro_text) # <<>>
        THEN <<ContentSection(<<>>, intro_text, 0)>> \o sects
        ELSE sects

----------------------------------------------------------------------------
(* ContentExtractor: cleaned HTML.                                         *)

\* a block of the given name that holds text only
Block(name, text) == [name |-> name, text |-> text, items |-> <<>>, rows |-> <<>>]

\* the characters of an element's name
TagChars(name) ==
    CASE name = "p" -> <<"p">>
      [] name = "h2" -> <<"h", "2">>
      [] name = "h3" -> <<"h", "3">>
      [] name = "h4" -> <<"h", "4">>
      [] name = "ul" -> <<"u", "l">>
      [] name = "ol" -> <<"o", "l">>
      [] name = "li" -> <<"l", "i">>
      [] name = "tr" -> <<"t", "r">>
      [] name = "td" -> <<"t", "d">>
      [] name = "table" -> <<"t", "a", "b", "l", "e">>
      [] name = "blockquote" -> <<"b", "l", "o", "c", "k", "q", "u", "o", "t", "e">>

\* f"<{tag}>{inner}</{tag}>"
Element(tag, inner) ==
    <<"<">> \o TagChars(tag) \o <<">">> \o inner
        \o <<"<", "/">> \o TagChars(tag) \o <<">">>

\* _extract_table_html: a <tr> of <td> cells for every row that has cells,
\* inside <table>...</table>
RECURSIVE RowsHtml(_)
RowsHtml(rows) ==
    IF rows = <<>> THEN <<>>
    ELSE IF Head(rows) = <<>> THEN RowsHtml(Tail(rows))
    ELSE << Element("tr",
               Concat([c \in 1..Len(Head(rows)) |-> Element("td", Head(rows)[c])])) >>
            \o RowsHtml(Tail(rows))
_extract_table_html(table) == Element("table", Concat(RowsHtml(table.rows)))

\* _clean_html_element(element)
_clean_html_element(element) ==
    IF element.name \in {"p", "h2", "h3", "h4", "blockquote"}
    THEN IF element.text # <<>> THEN Element(element.name, element.text)
         ELSE <<>>
    ELSE IF element.name \in {"ul", "ol"}
    THEN Element(element.name,
            Concat([k \in 1..Len(element.items) |-> Element("li", element.items[k])]))
    ELSE IF element.name = "table"
    THEN _extract_table_html(element)
    ELSE <<>>

\* the html_parts of _extract_html_content: the cleaned elements that are
\* not the empty string, in document order
RECURSIVE HtmlParts(_)
HtmlParts(blocks) ==
    IF blocks = <<>> THEN <<>>
    ELSE (IF _clean_html_element(Head(blocks)) # <<>>
          THEN << _clean_html_element(Head(blocks)) >>
          ELSE <<>>) \o HtmlParts(Tail(blocks))

\* ContentExtractor._extract_html_content(article)
_extract_html_content(blocks) == JoinWith(HtmlParts(blocks), <<"\n">>)

----------------------------------------------------------------------------
(* ContentExtractor: tags.                                                 *)

\* extract_tags: len(tag_text) < 50
MAX_TAG_LENGTH == 50

RECURSIVE Repeat(_, _)
Repeat(c, n) == IF n = 0 THEN <<>> ELSE <<c>> \o Repeat(c, n - 1)

\* anchor texts of 49 and of 50 characters
Tag49 == Repeat("x", MAX_TAG_LENGTH - 1)
Tag50 == Repeat("y", MAX_TAG_LENGTH)

\* what the page holds for extract_tags: keywords is <<>> when there is no
\* keywords meta, else <<its content>>; article_tags the contents of the
\* article:tag metas; tag_links the get_text(strip=True) of the rel=tag
\* anchors; tag_containers, per tag-class container, that of its anchors
KeywordsContents ==
    { <<>>, << <<"a", ",", " ", "b", ",", " ", "a">> >>, << <<" ", ",", " ">> >> }
ArticleTagContents == { <<" ", "b", " ">>, <<" ", " ">>, <<>> }
TagLinkTexts == { <<"c">>, <<>> }
ContainerLinkTexts == { <<"a">>, Tag49, Tag50 }

SeqsUpTo(S, n) == UNION { [1..k -> S] : k \in 0..n }

TagSoups ==
    { [keywords |-> k, article_tags |-> m, tag_links |-> l, tag_containers |-> c] :
        k \in KeywordsContents,
        m \in SeqsUpTo(ArticleTagContents, MaxTagItems),
        l \in SeqsUpTo(TagLinkTexts, MaxTagItems),
        c \in SeqsUpTo(SeqsUpTo(ContainerLinkTexts, MaxTagItems), MaxTagItems) }

\* Strategy A: the keywords meta, split at commas, stripped, blanks dropped
KeywordTags(s) ==
    IF s.keywords = <<>> \/ s.keywords[1] = <<>> THEN <<>>
    ELSE LET keywords == Split(s.keywords[1], ",")
             kws == [i \in 1..Len(keywords) |-> StripWs(keywords[i])]
         IN  SelectSeq(kws, LAMBDA kw : kw # <<>>)

\* Strategy B: the article:tag metas that have a content, stripped
ArticleTags(s) ==
    LET with_content == SelectSeq(s.article_tags, LAMBDA c : c # <<>>)
    IN  [i \in 1..Len(with_content) |-> StripWs(with_content[i])]

\* Strategy C: the rel=tag anchors that have a text
TagLinks(s) == SelectSeq(s.tag_links, LAMBDA x : x # <<>>)

\* Strategy D: the anchors in tag containers with a text under 50 characters
RECURSIVE ContainerTags(_)
ContainerTags(containers) ==
    IF containers = <<>> THEN <<>>
    ELSE SelectSeq(Head(containers),
                   LAMBDA x : x # <<>> /\ Len(x) < MAX_TAG_LENGTH)
         \o ContainerTags(Tail(containers))

\* every tags.add of extract_tags, in the order made
TagsAdded(s) ==
    KeywordTags(s) \o ArticleTags(s) \o TagLinks(s)
        \o ContainerTags(s.tag_containers)

\* list(a set): its elements once each, in an order the caller cannot choose
ListsOf(S) ==
    { f \in [1..Cardinality(S) -> S] :
        \A i, j \in 1..Cardinality(S) : i # j => f[i] # f[j] }

\* extract_tags collecting into a list instead of a set
extract_tags_appending(s) == { TagsAdded(s) }

\* ContentExtractor.extract_tags: the lists it may return
extract_tags(s) == ListsOf(Range(TagsAdded(s)))

----------------------------------------------------------------------------
(* Scraper.                                                                *)

\* Scraper.__init__: min_path_depth defaults to 3
DEFAULT_MIN_PATH_DEPTH == 3
\* is_valid_article: if total_length < 100
MIN_CONTENT_LENGTH == 100
\* scrape_from_sitemap: fetch_limit = max_articles * 3
FETCH_FACTOR == 3

\* pages: a GET that fails, or the content the extractor finds in the page,
\* as the length of content_html and the lengths of the sections' contents
FailPage == [kind |-> "fail", content_html |-> 0, sections |-> <<>>]
Page(html, secs) == [kind |-> "page", content_html |-> html, sections |-> secs]

PageUrls == {PageMyPost, PageTagNews, PageOtherPost}

PagesFor(u) ==
    CASE u = PageMyPost ->
            {FailPage, Page(99, <<200>>), Page(100, <<>>), Page(0, <<60, 40>>)}
      [] u = PageOtherPost -> {FailPage, Page(0, <<60, 39>>), Page(100, <<>>)}
      [] u = PageTagNews -> {Page(100, <<>>)}

\* the children an index scraped may list
ScrapeChildUrls == {PostSitemap, PostSitemap2}
ScrapeChildLists == UNION { [1..n -> ScrapeChildUrls] : n \in 0..MaxScrapeChildren }
ScrapeRootDocs == {FailDoc, UrlsetA, UrlsetC} \cup { IndexDoc(cs) : cs \in ScrapeChildLists }

\* fetch_page: None when the request fails
fetch_page(u) == pages[u]

RECURSIVE SumLens(_)
SumLens(secs) == IF secs = <<>> THEN 0 ELSE Head(secs) + SumLens(Tail(secs))

\* total_length of is_valid_article: the length of content_html, or when
\* that is zero the sum of the lengths of the sections' contents
total_length(c) ==
    IF c.content_html = 0 THEN SumLens(c.sections) ELSE c.content_html

\* is_valid_article rejecting a total of exactly 100 too
is_valid_article_at_most(c) ==
    IF total_length(c) <= MIN_CONTENT_LENGTH
    THEN <<FALSE, "Content too short">>
    ELSE <<TRUE, "Valid article">>

\* is_valid_article: (False, "Content too short") when total_length < 100
is_valid_article(c) ==
    IF total_length(c) < MIN_CONTENT_LENGTH
    THEN <<FALSE, "Content too short">>
    ELSE <<TRUE, "Valid article">>

\* ArticleContent(url=url, content_html=content['content_html'],
\* sections=content['sections'], ...), its texts as their lengths
ArticleContent(u, c) ==
    [url |-> u, content_html |-> c.content_html, sections |-> c.sections]

\* scrape(url, validate_url=False) without the validity check of step 4
scrape_unvalidated(u) ==
    LET soup == fetch_page(u)
    IN  IF soup.kind = "fail" THEN <<>>
        ELSE <<ArticleContent(u, soup)>>

\* scrape(url, validate_url=False): <<article>>, or <<>> for None
scrape(u) ==
    LET soup == fetch_page(u)
    IN  IF soup.kind = "fail" THEN <<>>
        ELSE IF ~is_valid_article(soup)[1] THEN <<>>
        ELSE <<ArticleContent(u, soup)>>

\* scrape(url, validate_url): the article or None, and the page fetches
\* the call issued; step 1 returns None before any fetch when validate_url
\* is set and is_single_post rejects the URL
scrape_validating(u, validate_url, minDepth) ==
    IF validate_url /\ ~is_single_post(u, minDepth)[1]
    THEN [article |-> <<>>, page_fetches |-> <<>>]
    ELSE [article |-> scrape(u), page_fetches |-> <<u>>]

\* fetch_limit = max_articles * 3 if max_articles is not None else None
fetch_limit(ma) == IF ma = <<>> THEN <<>> ELSE << ma[1] * FETCH_FACTOR >>

\* list(generator): the generator is resumed until it ends
RECURSIVE Drain(_, _, _, _)
RECURSIVE DrainStep(_, _, _, _)
Drain(a, g, outs, f) ==
    CHOOSE all \in { DrainStep(a, r, outs, f) : r \in {Resume(a, g)} } : TRUE

\* one next() of list(generator): r is what the resumption gave
DrainStep(a, r, outs, f) ==
    IF r.out = <<>>
    THEN [entries |-> outs, fetches |-> f \o r.fetches, raised |-> r.raised]
    ELSE Drain(a, r.g, Append(outs, [url |-> r.out[1], ci |-> r.g.ci]),
               f \o r.fetches)

\* the filter loop keeping every entry, accepted by is_single_post or not
ValidUrls_keeping_all(entries, minDepth, ma, i, acc) == entries

\* the loop that keeps the entries is_single_post accepts, and breaks once
\* max_articles of them are kept
RECURSIVE ValidUrls(_, _, _, _, _)
ValidUrls(entries, minDepth, ma, i, acc) ==
    IF i > Len(entries) THEN acc
    ELSE IF is_single_post(entries[i].url, minDepth)[1]
         THEN IF ma # <<>> /\ Len(acc) + 1 >= ma[1]
              THEN Append(acc, entries[i])
              ELSE ValidUrls(entries, minDepth, ma, i + 1, Append(acc, entries[i]))
    ELSE ValidUrls(entries, minDepth, ma, i + 1, acc)

\* a generator of scrape_from_sitemap that has not run yet
NewScrape ==
    [pc |-> "start", all_entries |-> <<>>, valid_urls |-> <<>>, i |-> 0,
     count |-> 0]

\* the loop of scrape_from_sitemap ending at the first candidate that
\* gives no article
ScrapeLoop_halting(g, sf, pf) ==
    IF g.i > Len(g.valid_urls)
    THEN [g |-> [g EXCEPT !.pc = "done"], out |-> <<>>, sitemap_fetches |-> sf,
          page_fetches |-> pf, raised |-> FALSE]
    ELSE LET article == scrape(g.valid_urls[g.i].url)
             pf2 == Append(pf, [url |-> g.valid_urls[g.i].url, i |-> g.i])
         IN  IF article # <<>>
             THEN [g |-> [g EXCEPT !.pc = "yield"], out |-> article,
                   sitemap_fetches |-> sf, page_fetches |-> pf2,
                   raised |-> FALSE]
             ELSE [g |-> [g EXCEPT !.pc = "done"], out |-> <<>>,
                   sitemap_fetches |-> sf, page_fetches |-> pf2,
                   raised |-> FALSE]

\* for i, entry in enumerate(valid_urls, 1): at position g.i
RECURSIVE ScrapeLoop(_, _, _)
\* the loop of scrape_from_sitemap fetching a page again when its fetch
\* failed
ScrapeLoop_retrying(g, sf, pf) ==
    IF g.i > Len(g.valid_urls)
    THEN [g |-> [g EXCEPT !.pc = "done"], out |-> <<>>, sitemap_fetches |-> sf,
          page_fetches |-> pf, raised |-> FALSE]
    ELSE LET article == scrape(g.valid_urls[g.i].url)
             once == Append(pf, [url |-> g.valid_urls[g.i].url, i |-> g.i])
             pf2 == IF fetch_page(g.valid_urls[g.i].url).kind = "fail"
                    THEN Append(once, [url |-> g.valid_urls[g.i].url, i |-> g.i])
                    ELSE once
         IN  IF article # <<>>
             THEN [g |-> [g EXCEPT !.pc = "yield"], out |-> article,
                   sitemap_fetches |-> sf, page_fetches |-> pf2,
                   raised |-> FALSE]
             ELSE ScrapeLoop([g EXCEPT !.i = @ + 1], sf, pf2)

ScrapeLoop(g, sf, pf) ==
    IF g.i > Len(g.valid_urls)
    THEN [g |-> [g EXCEPT !.pc = "done"], out |-> <<>>, sitemap_fetches |-> sf,
          page_fetches |-> pf, raised |-> FALSE]
    ELSE LET article == scrape(g.valid_urls[g.i].url)
             pf2 == Append(pf, [url |-> g.valid_urls[g.i].url, i |-> g.i])
         IN  IF article # <<>>
             THEN [g |-> [g EXCEPT !.pc = "yield"], out |-> article,
                   sitemap_fetches |-> sf, page_fetches |-> pf2,
                   raised |-> FALSE]
             ELSE ScrapeLoop([g EXCEPT !.i = @ + 1], sf, pf2)

\* scrape_from_sitemap from the filtering of all_entries up to its first
\* yield; all_entries is what list(get_all_urls(...)) gave
FilterAndScrape(a, g, all_entries) ==
    IF all_entries.raised
    THEN [g |-> [g EXCEPT !.pc = "done"], out |-> <<>>,
          sitemap_fetches |-> all_entries.fetches, page_fetches |-> <<>>,
          raised |-> TRUE]
    ELSE CHOOSE r \in
            { ScrapeLoop([g EXCEPT !.all_entries = all_entries.entries,
                                   !.valid_urls = valid_urls, !.i = 1],
                         all_entries.fetches, <<>>) :
                valid_urls \in { ValidUrls(all_entries.entries, a.min_path_depth,
                                           a.max_articles, 1, <<>>) } } : TRUE

\* the body of scrape_from_sitemap up to its first yield
ScrapeStart(a, g) ==
    CHOOSE r \in
        { FilterAndScrape(a, g, all_entries) :
            all_entries \in { Drain([sitemap_url |-> a.sitemap_url,
                                     url_filter |-> a.url_filter,
                                     max_urls |-> fetch_limit(a.max_articles)],
                                    NewGen, <<>>, <<>>) } } : TRUE

\* scrape_from_sitemap scraping every valid URL before it yields the first
ScrapeResume_prefetching(a, g) ==
    CHOOSE eager \in
        { [r EXCEPT !.page_fetches =
              IF g.pc = "start"
              THEN [n \in 1..Len(r.g.valid_urls) |->
                       [url |-> r.g.valid_urls[n].url, i |-> n]]
              ELSE <<>>] :
            r \in { CASE g.pc = "start" -> ScrapeStart(a, g)
                      [] g.pc = "yield" ->
                            ScrapeLoop([g EXCEPT !.count = @ + 1, !.i = @ + 1],
                                       <<>>, <<>>)
                      [] g.pc = "done" -> ScrapeLoop(g, <<>>, <<>>) } } : TRUE

\* next(generator) on scrape_from_sitemap: it runs to its next yield or to
\* its end; after a yield it resumes with count += 1
ScrapeResume(a, g) ==
    CASE g.pc = "start" -> ScrapeStart(a, g)
      [] g.pc = "yield" ->
            ScrapeLoop([g EXCEPT !.count = @ + 1, !.i = @ + 1], <<>>, <<>>)
      [] g.pc = "done" -> ScrapeLoop(g, <<>>, <<>>)

----------------------------------------------------------------------------
(* DomainWorker threads and the HistoryManager they share.                 *)
(* A thread's step is one stretch of its code between two points where     *)
(* another thread may run: a read or an update of the shared set, a call   *)
(* that does I/O.  What a sitemap yields is given (scrape_from_sitemap is  *)
(* modelled above); a file that two handles write holds what the last of   *)
(* them dumped.                                                            *)

Workers == {"Worker-a", "Worker-b"}

\* the cycles a worker's run loop is followed for
MaxCycles == 2
\* the articles one sitemap may yield
MaxYield == 2

WorkerArticleUrls == {PageMyPost, PageOtherPost}

YieldLists == UNION { [1..n -> WorkerArticleUrls] : n \in 0..MaxYield }

\* one of DomainWorker.urls: a sitemap (or root) URL with the articles
\* scrape_from_sitemap yields for it, or an article URL with the article
\* scrape returns for it (none when scrape returns None)
SitemapEntries == { [kind |-> "sitemap", url |-> RootUrl, yields |-> ys] :
                    ys \in YieldLists }
SingleEntries ==
    { [kind |-> "single", url |-> PageMyPost, yields |-> <<PageMyPost>>],
      [kind |-> "single", url |-> PageMyPost, yields |-> <<>>],
      [kind |-> "single", url |-> PageOtherPost, yields |-> <<PageOtherPost>>] }
UrlLists ==
    { <<e>> : e \in SitemapEntries \cup SingleEntries }
        \cup { <<e, m>> : e \in SingleEntries,
                          m \in { x \in SitemapEntries : Len(x.yields) = 1 } }

\* DomainWorker.__init__: running, and nothing of run() done yet
NewThread == [pc |-> "run", running |-> TRUE, cycle |-> 0, i |-> 0,
              pending |-> <<>>, via |-> "none", cur |-> <<>>, data |-> {},
              ok |-> TRUE, raised |-> FALSE]

\* the order in which WorkerManager.start creates the workers
WorkerOrder == <<"Worker-a", "Worker-b">>

\* WorkerManager after start() has created and started every worker and
\* set running: it waits for the workers
StartedManager == [pc |-> "waiting", running |-> TRUE, workers |-> WorkerOrder,
                   stopped |-> FALSE]

\* HistoryManager.is_scraped
is_scraped(u) == u \in scraped_urls

\* `self.history and self.history.is_scraped(url)`
SkipScraped(u) == prevent_duplicates /\ is_scraped(u)

\* back from the save of an article to the loop it was saved in
BackToLoop(t) ==
    IF t.via = "sitemap"
    THEN [t EXCEPT !.pc = "articles", !.cur = <<>>, !.data = {}, !.ok = TRUE]
    ELSE [t EXCEPT !.pc = "urls", !.i = t.i + 1, !.cur = <<>>, !.data = {},
                   !.via = "none", !.ok = TRUE]

\* where a thread stands while it is inside HistoryManager.mark_scraped:
\* the URL added, the file not yet rewritten
InMarkScraped == {"list", "open", "dump"}

----------------------------------------------------------------------------
(* The values of the variables a specification does not use.              *)

NoAnswer == [op |-> "none", val |-> <<>>]

ClassIdle ==
    /\ url = <<>>
    /\ min_path_depth = 3
    /\ answer = NoAnswer

TravIdle ==
    /\ web = [u \in SitemapUrls |-> FailDoc]
    /\ url_filter = <<>>
    /\ max_urls = <<>>
    /\ gen = NewGen
    /\ received = <<>>
    /\ fetched = <<>>
    /\ pulls = 0
    /\ outcome = "none"
    /\ stopped = FALSE

\* Scraper.scrape has not been called
NoScrapeCall == [called |-> FALSE, url |-> <<>>, validate_url |-> FALSE,
                 article |-> <<>>, page_fetches |-> <<>>]

ScrapeIdle ==
    /\ scrape_call = NoScrapeCall
    /\ pages = [u \in PageUrls |-> FailPage]
    /\ max_articles = <<>>
    /\ sgen = NewScrape
    /\ articles = <<>>
    /\ page_fetched = <<>>

NotCalled == [called |-> FALSE, val |-> <<>>]

NoEarlier == [entries |-> <<>>, fetched |-> <<>>, complete |-> FALSE]

RetraIdle ==
    /\ runs = 1
    /\ earlier = NoEarlier

NoSoup == [keywords |-> <<>>, article_tags |-> <<>>, tag_links |-> <<>>,
           tag_containers |-> <<>>]

ExtractIdle ==
    /\ article_blocks = <<>>
    /\ sections = NotCalled
    /\ page_soup = NoSoup
    /\ tags = NotCalled
    /\ content_dict = Page(0, <<>>)
    /\ validity = NotCalled
    /\ html_content = NotCalled

WorkerIdle ==
    /\ prevent_duplicates = FALSE
    /\ storage_ok = TRUE
    /\ manager = StartedManager
    /\ worker_urls = [w \in Workers |-> <<>>]
    /\ threads = [w \in Workers |-> NewThread]
    /\ scraped_urls = {}
    /\ history_file = [urls |-> {}, writers |-> {}]
    /\ saved = [u \in WorkerArticleUrls |-> 0]

----------------------------------------------------------------------------
(* The classifier's calls.                                                 *)

InitClassify ==
    /\ url \in Urls
    /\ min_path_depth \in 1..MaxMinDepth
    /\ answer = NoAnswer
    /\ TravIdle
    /\ ScrapeIdle
    /\ ExtractIdle
    /\ RetraIdle
    /\ WorkerIdle

\* URLValidator(min_path_depth).is_single_post(url)
IsSinglePost ==
    /\ answer = NoAnswer
    /\ answer' = [op |-> "is_single_post",
                  val |-> is_single_post(url, min_path_depth)]
    /\ UNCHANGED <<extractVars, retraVars, workerVars, url, min_path_depth, travVars, scrapeVars>>

\* URLValidator.is_root_domain(url)
IsRootDomain ==
    /\ answer = NoAnswer
    /\ answer' = [op |-> "is_root_domain", val |-> <<is_root_domain(url)>>]
    /\ UNCHANGED <<extractVars, retraVars, workerVars, url, min_path_depth, travVars, scrapeVars>>

NextClassify == IsSinglePost \/ IsRootDomain

SpecClassify == InitClassify /\ [][NextClassify]_vars

----------------------------------------------------------------------------
(* One traversal: a consumer pulls from get_all_urls(RootUrl, ...).        *)

TravArgs == [sitemap_url |-> RootUrl, url_filter |-> url_filter,
             max_urls |-> max_urls]

InitTraverse ==
    /\ ClassIdle
    /\ ScrapeIdle
    /\ ExtractIdle
    /\ RetraIdle
    /\ WorkerIdle
    /\ \E rd \in RootDocs :
         \E cw \in [ChildUrls -> {FailDoc, UrlsetA, UrlsetB, NestedIndex}] :
            /\ \A u \in ChildUrls :
                  cw[u] \in DocsFor(u)
                  /\ (u \notin Range(rd.children) => cw[u] = UnlistedDoc(u))
            /\ web = [u \in SitemapUrls |-> IF u = RootUrl THEN rd ELSE cw[u]]
    /\ url_filter \in Filters
    /\ max_urls \in {<<>>} \cup { <<n>> : n \in 0..MaxMaxUrls }
    /\ gen = NewGen
    /\ received = <<>>
    /\ fetched = <<>>
    /\ pulls = 0
    /\ outcome = "none"
    /\ stopped = FALSE

\* the consumer calls next() on the generator
Pull ==
    /\ ~stopped
    /\ gen.pc # "done"
    /\ \E r \in {Resume(TravArgs, gen)} :
           /\ gen' = r.g
           /\ pulls' = pulls + 1
           /\ fetched' = fetched \o
                [i \in 1..Len(r.fetches) |->
                    [url |-> r.fetches[i].url, ci |-> r.fetches[i].ci,
                     pull |-> pulls + 1]]
           /\ received' =
                IF r.out # <<>>
                THEN Append(received, [url |-> r.out[1], ci |-> r.g.ci,
                                       ei |-> r.g.ei, pull |-> pulls + 1])
                ELSE received
           /\ outcome' = IF r.raised THEN "error"
                         ELSE IF r.out # <<>> THEN "entry" ELSE "stop"
    /\ UNCHANGED <<extractVars, retraVars, workerVars, classVars, scrapeVars, web, url_filter, max_urls, stopped>>

\* the consumer stops pulling and drops the generator
StopPulling ==
    /\ ~stopped
    /\ gen.pc # "done"
    /\ stopped' = TRUE
    /\ UNCHANGED <<extractVars, retraVars, workerVars, classVars, scrapeVars, web, url_filter, max_urls, gen,
                   received, fetched, pulls, outcome>>

NextTraverse == Pull \/ StopPulling

SpecTraverse == InitTraverse /\ [][NextTraverse]_vars

----------------------------------------------------------------------------
(* Two traversals on one SitemapParser: after the first call of            *)
(* get_all_urls was pulled to its end, or given up, the same call is made  *)
(* again against the same documents.                                       *)

InitRetraverse ==
    /\ ClassIdle
    /\ ScrapeIdle
    /\ ExtractIdle
    /\ WorkerIdle
    /\ \E rd \in ScrapeRootDocs :
         \E cw \in [ChildUrls -> {FailDoc, UrlsetA, UrlsetB, NestedIndex}] :
            /\ \A u \in ChildUrls :
                  cw[u] \in DocsFor(u)
                  /\ (u \notin Range(rd.children) => cw[u] = UnlistedDoc(u))
            /\ web = [u \in SitemapUrls |-> IF u = RootUrl THEN rd ELSE cw[u]]
    /\ url_filter \in Filters
    /\ max_urls \in {<<>>} \cup { <<n>> : n \in 0..MaxMaxUrls }
    /\ gen = NewGen
    /\ received = <<>>
    /\ fetched = <<>>
    /\ pulls = 0
    /\ outcome = "none"
    /\ stopped = FALSE
    /\ runs = 1
    /\ earlier = NoEarlier

\* the second call going on from the count of the first, as if count were
\* kept on the parser instead of starting at 0 in each call
Retraverse_keeping_count ==
    /\ runs = 1
    /\ runs' = 2
    /\ earlier' = [entries |-> received, fetched |-> fetched,
                   complete |-> (gen.pc = "done")]
    /\ gen' = [NewGen EXCEPT !.count = Len(received)]
    /\ received' = <<>>
    /\ fetched' = <<>>
    /\ pulls' = 0
    /\ outcome' = "none"
    /\ stopped' = FALSE
    /\ UNCHANGED <<classVars, scrapeVars, extractVars, workerVars, web, url_filter, max_urls>>

\* get_all_urls is called again with the same arguments: a new generator,
\* the one before being finished or dropped where it stands
Retraverse ==
    /\ runs = 1
    /\ runs' = 2
    /\ earlier' = [entries |-> received, fetched |-> fetched,
                   complete |-> (gen.pc = "done")]
    /\ gen' = NewGen
    /\ received' = <<>>
    /\ fetched' = <<>>
    /\ pulls' = 0
    /\ outcome' = "none"
    /\ stopped' = FALSE
    /\ UNCHANGED <<classVars, scrapeVars, extractVars, workerVars, web, url_filter, max_urls>>

NextRetraverse == Pull \/ StopPulling \/ Retraverse

SpecRetraverse == InitRetraverse /\ [][NextRetraverse]_vars

----------------------------------------------------------------------------
(* One scrape: a consumer pulls from                                       *)
(* Scraper().scrape_from_sitemap(RootUrl, url_filter, max_articles).       *)

ScrapeArgs == [sitemap_url |-> RootUrl, url_filter |-> url_filter,
               max_articles |-> max_articles,
               min_path_depth |-> min_path_depth]

InitScrape ==
    /\ ExtractIdle
    /\ RetraIdle
    /\ WorkerIdle
    /\ url = <<>>
    /\ min_path_depth = DEFAULT_MIN_PATH_DEPTH
    /\ answer = NoAnswer
    /\ \E rd \in ScrapeRootDocs :
         \E cw \in [ChildUrls -> {FailDoc, UrlsetA, UrlsetB, NestedIndex}] :
            /\ \A u \in ChildUrls :
                  cw[u] \in DocsFor(u)
                  /\ (u \notin Range(rd.children) => cw[u] = UnlistedDoc(u))
            /\ web = [u \in SitemapUrls |-> IF u = RootUrl THEN rd ELSE cw[u]]
    /\ url_filter \in Filters
    /\ max_urls = <<>>
    /\ gen = NewGen
    /\ received = <<>>
    /\ fetched = <<>>
    /\ pulls = 0
    /\ outcome = "none"
    /\ stopped = FALSE
    /\ pages \in [PageUrls -> UNION { PagesFor(u) : u \in PageUrls }]
    /\ \A u \in PageUrls : pages[u] \in PagesFor(u)
    /\ max_articles \in {<<>>} \cup { <<n>> : n \in 0..MaxArticles }
    /\ sgen = NewScrape
    /\ articles = <<>>
    /\ page_fetched = <<>>
    /\ scrape_call = NoScrapeCall

\* the consumer calls next() on the generator of scrape_from_sitemap
PullArticle ==
    /\ ~stopped
    /\ sgen.pc # "done"
    /\ \E r \in {ScrapeResume(ScrapeArgs, sgen)} :
           /\ sgen' = r.g
           /\ pulls' = pulls + 1
           /\ fetched' = fetched \o
                [n \in 1..Len(r.sitemap_fetches) |->
                    [url |-> r.sitemap_fetches[n].url,
                     ci |-> r.sitemap_fetches[n].ci, pull |-> pulls + 1]]
           /\ page_fetched' = page_fetched \o
                [n \in 1..Len(r.page_fetches) |->
                    [url |-> r.page_fetches[n].url,
                     i |-> r.page_fetches[n].i, pull |-> pulls + 1]]
           /\ articles' =
                IF r.out # <<>>
                THEN Append(articles, [url |-> r.out[1].url,
                                       content_html |-> r.out[1].content_html,
                                       sections |-> r.out[1].sections,
                                       i |-> r.g.i,
                                       pull |-> pulls + 1])
                ELSE articles
           /\ outcome' = IF r.raised THEN "error"
                         ELSE IF r.out # <<>> THEN "article" ELSE "stop"
    /\ UNCHANGED <<extractVars, retraVars, workerVars, classVars, web, url_filter, max_urls, gen, received,
                   stopped, pages, max_articles, scrape_call>>

\* the consumer stops pulling and drops the generator
StopScraping ==
    /\ ~stopped
    /\ sgen.pc # "done"
    /\ stopped' = TRUE
    /\ UNCHANGED <<extractVars, retraVars, workerVars, classVars, scrapeVars, web, url_filter, max_urls, gen,
                   received, fetched, pulls, outcome>>

NextScrape == PullArticle \/ StopScraping

SpecScrape == InitScrape /\ [][NextScrape]_vars

\* a Scraper on which scrape is called once and scrape_from_sitemap is
\* run on a sitemap that is a plain URL set
InitScrapeUrl ==
    /\ ExtractIdle
    /\ RetraIdle
    /\ WorkerIdle
    /\ url = <<>>
    /\ min_path_depth = DEFAULT_MIN_PATH_DEPTH
    /\ answer = NoAnswer
    /\ \E rd \in {UrlsetA, UrlsetC} :
          web = [u \in SitemapUrls |-> IF u = RootUrl THEN rd ELSE UnlistedDoc(u)]
    /\ url_filter \in Filters
    /\ max_urls = <<>>
    /\ gen = NewGen
    /\ received = <<>>
    /\ fetched = <<>>
    /\ pulls = 0
    /\ outcome = "none"
    /\ stopped = FALSE
    /\ pages \in [PageUrls -> UNION { PagesFor(u) : u \in PageUrls }]
    /\ \A u \in PageUrls : pages[u] \in PagesFor(u)
    /\ max_articles \in {<<>>} \cup { <<n>> : n \in 0..MaxArticles }
    /\ sgen = NewScrape
    /\ articles = <<>>
    /\ page_fetched = <<>>
    /\ scrape_call = NoScrapeCall

\* Scraper.scrape is called on a page URL, with or without URL validation,
\* before the generator is first resumed (the two calls share nothing but
\* the pages)
ScrapeUrl ==
    /\ ~scrape_call.called
    /\ pulls = 0 /\ ~stopped
    /\ \E u \in PageUrls, validate_url \in BOOLEAN :
          \E r \in {scrape_validating(u, validate_url, min_path_depth)} :
             scrape_call' = [called |-> TRUE, url |-> u,
                             validate_url |-> validate_url,
                             article |-> r.article,
                             page_fetches |-> r.page_fetches]
    /\ UNCHANGED <<classVars, travVars, extractVars, retraVars, workerVars,
                   pages, max_articles, sgen, articles, page_fetched>>

NextScrapeUrl == PullArticle \/ StopScraping \/ ScrapeUrl

SpecScrapeUrl == InitScrapeUrl /\ [][NextScrapeUrl]_vars

----------------------------------------------------------------------------
(* One call of ContentExtractor._extract_sections(article).                *)

InitSections ==
    /\ ClassIdle
    /\ TravIdle
    /\ ScrapeIdle
    /\ article_blocks \in Articles
    /\ sections = NotCalled
    /\ page_soup = NoSoup
    /\ tags = NotCalled
    /\ content_dict = Page(0, <<>>)
    /\ validity = NotCalled
    /\ html_content = NotCalled
    /\ RetraIdle
    /\ WorkerIdle

ExtractSections ==
    /\ ~sections.called
    /\ sections' = [called |-> TRUE, val |-> _extract_sections(article_blocks)]
    /\ UNCHANGED <<classVars, travVars, scrapeVars, retraVars, workerVars, article_blocks, page_soup,
                   tags, content_dict, validity, html_content>>

NextSections == ExtractSections

SpecSections == InitSections /\ [][NextSections]_vars

----------------------------------------------------------------------------
(* One call of ContentExtractor._extract_html_content(article).            *)

\* the blocks find_all(['p','h2','h3','h4','ul','ol','table','blockquote'])
\* gives for the content areas tried: blocks with text and without, lists
\* with an item, with a blank item and with none, tables with a cell, with
\* a row of no cells and with no row
HtmlBlocks ==
    { P(<<"a">>), P(<<>>), H2(<<>>), Block("h4", <<"s">>),
      Block("blockquote", <<>>),
      UL(<< <<"a">> >>), UL(<< <<>> >>), UL(<<>>),
      TABLE(<< << <<"a">> >> >>), TABLE(<< <<>> >>), TABLE(<<>>) }

HtmlArticles == UNION { [1..n -> HtmlBlocks] : n \in 0..MaxHtmlBlocks }

InitHtml ==
    /\ ClassIdle
    /\ TravIdle
    /\ ScrapeIdle
    /\ article_blocks \in HtmlArticles
    /\ sections = NotCalled
    /\ page_soup = NoSoup
    /\ tags = NotCalled
    /\ content_dict = Page(0, <<>>)
    /\ validity = NotCalled
    /\ html_content = NotCalled
    /\ RetraIdle
    /\ WorkerIdle

ExtractHtmlContent ==
    /\ ~html_content.called
    /\ html_content' =
          [called |-> TRUE, val |-> _extract_html_content(article_blocks)]
    /\ UNCHANGED <<classVars, travVars, scrapeVars, retraVars, workerVars,
                   article_blocks, sections, page_soup, tags, content_dict,
                   validity>>

NextHtml == ExtractHtmlContent

SpecHtml == InitHtml /\ [][NextHtml]_vars

----------------------------------------------------------------------------
(* One call of Scraper.is_valid_article(content).                          *)

\* the lengths of content_html and of a section's content that are tried
HtmlLengths == {0, 99, 100}
SectionLengths == {0, 1, 49, 50, 99, 100}

Contents ==
    { Page(h, s) : h \in HtmlLengths,
                   s \in UNION { [1..n -> SectionLengths] : n \in 0..MaxSections } }

InitValidity ==
    /\ ClassIdle
    /\ TravIdle
    /\ ScrapeIdle
    /\ article_blocks = <<>>
    /\ sections = NotCalled
    /\ page_soup = NoSoup
    /\ tags = NotCalled
    /\ content_dict \in Contents
    /\ validity = NotCalled
    /\ html_content = NotCalled
    /\ RetraIdle
    /\ WorkerIdle

IsValidArticle ==
    /\ ~validity.called
    /\ validity' = [called |-> TRUE, val |-> is_valid_article(content_dict)]
    /\ UNCHANGED <<classVars, travVars, scrapeVars, retraVars, workerVars, article_blocks, sections,
                   page_soup, tags, content_dict, html_content>>

NextValidity == IsValidArticle

SpecValidity == InitValidity /\ [][NextValidity]_vars

----------------------------------------------------------------------------
(* One call of ContentExtractor.extract_tags(soup).                        *)

InitTags ==
    /\ ClassIdle
    /\ TravIdle
    /\ ScrapeIdle
    /\ article_blocks = <<>>
    /\ sections = NotCalled
    /\ page_soup \in TagSoups
    /\ tags = NotCalled
    /\ content_dict = Page(0, <<>>)
    /\ validity = NotCalled
    /\ html_content = NotCalled
    /\ RetraIdle
    /\ WorkerIdle

ExtractTags ==
    /\ ~tags.called
    /\ \E result \in extract_tags(page_soup) :
          tags' = [called |-> TRUE, val |-> result]
    /\ UNCHANGED <<classVars, travVars, scrapeVars, retraVars, workerVars, article_blocks, sections,
                   page_soup, content_dict, validity, html_content>>

NextTags == ExtractTags

SpecTags == InitTags /\ [][NextTags]_vars

----------------------------------------------------------------------------
(* The workers' run.                                                       *)

InitWorkers ==
    /\ ClassIdle
    /\ TravIdle
    /\ ScrapeIdle
    /\ ExtractIdle
    /\ RetraIdle
    /\ prevent_duplicates \in BOOLEAN
    /\ storage_ok = TRUE
    /\ manager = StartedManager
    /\ worker_urls \in [Workers -> UrlLists]
    /\ threads = [w \in Workers |-> NewThread]
    \* HistoryManager.__init__ loads the set the file holds
    /\ scraped_urls \in IF prevent_duplicates THEN {{}, {PageOtherPost}} ELSE {{}}
    /\ history_file = [urls |-> scraped_urls, writers |-> {}]
    /\ saved = [u \in WorkerArticleUrls |-> 0]

\* run: the `while self.running` test, and the cycle it starts
WorkerRun(w) ==
    /\ threads[w].pc = "run"
    /\ threads[w].running => threads[w].cycle < MaxCycles
    /\ \E t \in {threads[w]} :
        threads' = [threads EXCEPT ![w] =
            IF t.running
            THEN [t EXCEPT !.pc = "urls", !.cycle = t.cycle + 1, !.i = 1,
                           !.raised = FALSE]
            ELSE [t EXCEPT !.pc = "stopped"]]
    /\ UNCHANGED <<classVars, travVars, scrapeVars, extractVars, retraVars,
                   prevent_duplicates, storage_ok, manager, worker_urls, scraped_urls,
                   history_file, saved>>

\* _process_urls without its `if not self.running: break`
ProcessUrls_not_checking_running(w) ==
    /\ threads[w].pc = "urls"
    /\ \E t \in {threads[w]} :
        threads' = [threads EXCEPT ![w] =
            IF t.i > Len(worker_urls[w])
            THEN [t EXCEPT !.pc = "run"]
            ELSE IF SkipScraped(worker_urls[w][t.i].url)
            THEN [t EXCEPT !.i = t.i + 1]
            ELSE IF worker_urls[w][t.i].kind = "sitemap"
            THEN [t EXCEPT !.pc = "articles", !.via = "sitemap",
                           !.pending = worker_urls[w][t.i].yields]
            ELSE [t EXCEPT !.pc = "scrape", !.via = "single"]]
    /\ UNCHANGED <<classVars, travVars, scrapeVars, extractVars, retraVars,
                   prevent_duplicates, storage_ok, manager, worker_urls,
                   scraped_urls, history_file, saved>>

\* _process_urls: the next of self.urls, skipped when the history has it
ProcessUrls(w) ==
    /\ threads[w].pc = "urls"
    /\ \E t \in {threads[w]} :
        threads' = [threads EXCEPT ![w] =
            IF t.i > Len(worker_urls[w]) \/ ~t.running
            THEN [t EXCEPT !.pc = "run"]
            ELSE IF SkipScraped(worker_urls[w][t.i].url)
            THEN [t EXCEPT !.i = t.i + 1]
            ELSE IF worker_urls[w][t.i].kind = "sitemap"
            THEN [t EXCEPT !.pc = "articles", !.via = "sitemap",
                           !.pending = worker_urls[w][t.i].yields]
            ELSE [t EXCEPT !.pc = "scrape", !.via = "single"]]
    /\ UNCHANGED <<classVars, travVars, scrapeVars, extractVars, retraVars,
                   prevent_duplicates, storage_ok, manager, worker_urls, scraped_urls,
                   history_file, saved>>

\* _process_single_url: scrape(url), and on to the save when it gave an article
ProcessSingleUrl(w) ==
    /\ threads[w].pc = "scrape"
    /\ \E t \in {threads[w]} :
        threads' = [threads EXCEPT ![w] =
            IF worker_urls[w][t.i].yields = <<>>
            THEN [t EXCEPT !.pc = "urls", !.i = t.i + 1, !.via = "none"]
            ELSE [t EXCEPT !.pc = "save", !.cur = worker_urls[w][t.i].url]]
    /\ UNCHANGED <<classVars, travVars, scrapeVars, extractVars, retraVars,
                   prevent_duplicates, storage_ok, manager, worker_urls, scraped_urls,
                   history_file, saved>>

\* _scrape_and_save_sitemap: the next article of the generator, skipped
\* when the history has its URL
ScrapeAndSaveSitemap(w) ==
    /\ threads[w].pc = "articles"
    /\ \E t \in {threads[w]} :
        threads' = [threads EXCEPT ![w] =
            IF t.pending = <<>> \/ ~t.running
            THEN [t EXCEPT !.pc = "urls", !.i = t.i + 1, !.pending = <<>>,
                           !.via = "none"]
            ELSE IF SkipScraped(Head(t.pending))
            THEN [t EXCEPT !.pending = Tail(t.pending)]
            ELSE [t EXCEPT !.pc = "save", !.cur = Head(t.pending),
                           !.pending = Tail(t.pending)]]
    /\ UNCHANGED <<classVars, travVars, scrapeVars, extractVars, retraVars,
                   prevent_duplicates, storage_ok, manager, worker_urls, scraped_urls,
                   history_file, saved>>

\* ArticleStorage.save of the article in hand; what it returns (ok) is not
\* looked at by the worker
StorageSave(w) ==
    /\ threads[w].pc = "save"
    /\ saved' = [saved EXCEPT ![threads[w].cur] = @ + 1]
    /\ threads' = [threads EXCEPT ![w] =
            IF prevent_duplicates
            THEN [threads[w] EXCEPT !.pc = "add", !.ok = storage_ok]
            ELSE BackToLoop(threads[w])]
    /\ UNCHANGED <<classVars, travVars, scrapeVars, extractVars, retraVars,
                   prevent_duplicates, storage_ok, manager, worker_urls, scraped_urls,
                   history_file>>

\* mark_scraped: self.scraped_urls.add(url)
MarkScraped(w) ==
    /\ threads[w].pc = "add"
    /\ scraped_urls' = scraped_urls \cup {threads[w].cur}
    /\ threads' = [threads EXCEPT ![w].pc = "list"]
    /\ UNCHANGED <<classVars, travVars, scrapeVars, extractVars, retraVars,
                   prevent_duplicates, storage_ok, manager, worker_urls, history_file, saved>>

\* _save_history: list(self.scraped_urls)
SaveHistoryList(w) ==
    /\ threads[w].pc = "list"
    /\ threads' = [threads EXCEPT ![w].pc = "open", ![w].data = scraped_urls]
    /\ UNCHANGED <<classVars, travVars, scrapeVars, extractVars, retraVars,
                   prevent_duplicates, storage_ok, manager, worker_urls, scraped_urls,
                   history_file, saved>>

\* _save_history: open(self.history_file, 'w') empties the file
SaveHistoryOpen(w) ==
    /\ threads[w].pc = "open"
    /\ history_file' = [urls |-> {}, writers |-> history_file.writers \cup {w}]
    /\ threads' = [threads EXCEPT ![w].pc = "dump"]
    /\ UNCHANGED <<classVars, travVars, scrapeVars, extractVars, retraVars,
                   prevent_duplicates, storage_ok, manager, worker_urls, scraped_urls, saved>>

\* _save_history: json.dump of the list taken, and the file closed
SaveHistoryDump(w) ==
    /\ threads[w].pc = "dump"
    /\ history_file' = [urls |-> threads[w].data,
                        writers |-> history_file.writers \ {w}]
    /\ threads' = [threads EXCEPT ![w] = BackToLoop(threads[w])]
    /\ UNCHANGED <<classVars, travVars, scrapeVars, extractVars, retraVars,
                   prevent_duplicates, storage_ok, manager, worker_urls, scraped_urls, saved>>

\* WorkerManager.stop, run by the signal handler in the main thread at
\* whatever point start() stands: running cleared and every worker of
\* self.workers told to stop (the joins that follow time out and change
\* nothing)
ManagerStop ==
    /\ ~manager.stopped
    /\ manager.pc # "returned"
    /\ manager' = [manager EXCEPT !.running = FALSE, !.stopped = TRUE]
    /\ threads' = [w \in Workers |->
                      IF \E n \in 1..Len(manager.workers) : manager.workers[n] = w
                      THEN [threads[w] EXCEPT !.running = FALSE]
                      ELSE threads[w]]
    /\ UNCHANGED <<classVars, travVars, scrapeVars, extractVars, retraVars,
                   prevent_duplicates, storage_ok, worker_urls, scraped_urls,
                   history_file, saved>>

WorkerStep(w) ==
    \/ WorkerRun(w)
    \/ ProcessUrls(w)
    \/ ProcessSingleUrl(w)
    \/ ScrapeAndSaveSitemap(w)
    \/ StorageSave(w)
    \/ MarkScraped(w)
    \/ SaveHistoryList(w)
    \/ SaveHistoryOpen(w)
    \/ SaveHistoryDump(w)

NextWorkers == (\E w \in Workers : WorkerStep(w)) \/ ManagerStop

SpecWorkers == InitWorkers /\ [][NextWorkers]_vars

----------------------------------------------------------------------------
(* WorkerManager.start with a shutdown signal at any point, workers whose  *)
(* calls may raise, and an output sink that may refuse every record.       *)

\* a DomainWorker that start() has not created yet
UnbornThread == [NewThread EXCEPT !.pc = "unborn"]

\* Thread.is_alive(): started and run() not yet returned
is_alive(w) == threads[w].pc \notin {"unborn", "stopped"}

\* the URLs of the two domains: an article URL for one, and for the other
\* a sitemap that yields the same article and a second one
ManagedUrls ==
    [w \in Workers |->
        IF w = "Worker-a"
        THEN << [kind |-> "single", url |-> PageMyPost, yields |-> <<PageMyPost>>] >>
        ELSE << [kind |-> "sitemap", url |-> RootUrl,
                 yields |-> <<PageMyPost, PageOtherPost>>] >>]

InitManager ==
    /\ ClassIdle
    /\ TravIdle
    /\ ScrapeIdle
    /\ ExtractIdle
    /\ RetraIdle
    /\ prevent_duplicates \in BOOLEAN
    /\ storage_ok \in BOOLEAN
    \* WorkerManager.__init__: no workers, running False; start() is entered
    /\ manager = [pc |-> "creating", running |-> FALSE, workers |-> <<>>,
                  stopped |-> FALSE]
    /\ worker_urls = ManagedUrls
    /\ threads = [w \in Workers |-> UnbornThread]
    /\ scraped_urls = {}
    /\ history_file = [urls |-> {}, writers |-> {}]
    /\ saved = [u \in WorkerArticleUrls |-> 0]

\* where a worker stands in a call that may raise: scrape, the next of the
\* sitemap's generator, save, and the open and dump of _save_history
MayRaise == {"scrape", "articles", "save", "open", "dump"}

\* the call in hand raises: the exception leaves _process_urls, run()
\* catches and prints it, sleeps and comes back to its `while` test; a
\* history file opened by `with` is closed
WorkerRaise(w) ==
    /\ threads[w].pc \in MayRaise
    /\ threads' = [threads EXCEPT ![w] =
            [threads[w] EXCEPT !.pc = "run", !.raised = TRUE, !.i = 0,
                               !.pending = <<>>, !.via = "none",
                               !.cur = <<>>, !.data = {}, !.ok = TRUE]]
    /\ history_file' = [history_file EXCEPT !.writers = @ \ {w}]
    /\ UNCHANGED <<classVars, travVars, scrapeVars, extractVars, retraVars,
                   prevent_duplicates, storage_ok, manager, worker_urls,
                   scraped_urls, saved>>

\* start(): one turn of the loop that creates a worker, appends it to
\* self.workers and starts its thread
ManagerStartWorker ==
    /\ manager.pc = "creating"
    /\ Len(manager.workers) < Len(WorkerOrder)
    /\ \E w \in {WorkerOrder[Len(manager.workers) + 1]} :
          /\ manager' = [manager EXCEPT !.workers = Append(@, w)]
          /\ threads' = [threads EXCEPT ![w] = NewThread]
    /\ UNCHANGED <<classVars, travVars, scrapeVars, extractVars, retraVars,
                   prevent_duplicates, storage_ok, worker_urls, scraped_urls,
                   history_file, saved>>

\* start(): self.running = True after the loop
ManagerSetRunning ==
    /\ manager.pc = "creating"
    /\ Len(manager.workers) = Len(WorkerOrder)
    /\ manager' = [manager EXCEPT !.running = TRUE, !.pc = "waiting"]
    /\ UNCHANGED <<classVars, travVars, scrapeVars, extractVars, retraVars,
                   prevent_duplicates, storage_ok, worker_urls, threads,
                   scraped_urls, history_file, saved>>

\* start(): `while self.running and any(w.is_alive() ...)` found false
ManagerReturn ==
    /\ manager.pc = "waiting"
    /\ ~(manager.running
           /\ \E n \in 1..Len(manager.workers) : is_alive(manager.workers[n]))
    /\ manager' = [manager EXCEPT !.pc = "returned"]
    /\ UNCHANGED <<classVars, travVars, scrapeVars, extractVars, retraVars,
                   prevent_duplicates, storage_ok, worker_urls, threads,
                   scraped_urls, history_file, saved>>

NextManager ==
    \/ \E w \in Workers : WorkerStep(w)
    \/ \E w \in Workers : WorkerRaise(w)
    \/ ManagerStartWorker
    \/ ManagerSetRunning
    \/ ManagerReturn
    \/ ManagerStop

SpecManager == InitManager /\ [][NextManager]_vars

\* every worker thread is scheduled again and again and the call it is in
\* returns
FairSpecManager ==
    SpecManager /\ \A w \in Workers : WF_vars(WorkerStep(w))

----------------------------------------------------------------------------
(* Claims about the classifier.                                            *)

PathOf(u) == urlparse(u).path
QueryOf(u) == urlparse(u).query
Classified == answer.op = "is_single_post"

\* the '/'-separated segments of a path, the empty ones left out
NonEmptySegs(path) == SelectSeq(Split(path, "/"), LAMBDA seg : seg # <<>>)

\* the path is "/" + seg or "/" + seg + "/" for one non-empty segment seg
SingleSegment(path) ==
    /\ Len(path) >= 2 /\ path[1] = "/"
    /\ \A i \in 2..(Len(path) - 1) : path[i] # "/"
    /\ path # <<"/","/">>
TheSegment(path) == NonEmptySegs(path)[1]

\* the query string carries the key, whatever its value: some '&'-separated
\* piece is the key alone or the key followed by '='
QueryHasKey(query, key) ==
    \E i \in 1..Len(Split(query, "&")) :
        LET piece == Split(query, "&")[i]
        IN  piece = key \/ StartsWith(piece, key \o <<"=">>)

\* the path has a segment "page" followed by a segment of digits
PathHasPageSegment(path) ==
    \E i \in 1..(Len(Split(path, "/")) - 1) :
        /\ Split(path, "/")[i] = <<"p","a","g","e">>
        /\ i > 1
        /\ IsDigit(Split(path, "/")[i + 1])

\* the five checks of is_single_post in their order, each TRUE when it fails
FailedChecks(u, minDepth) ==
    LET last == Split(Strip(PathOf(u), "/"), "/")
    IN  << is_root_domain(u),
           has_pagination(u),
           matches_archive_pattern(u),
           get_path_depth(u) < (IF has_subdomain(u) THEN 1 ELSE minDepth),
           last[Len(last)] = <<>> \/ IsDigit(last[Len(last)]) >>

CheckReasons == <<"root", "pagination", "archive", "shallow", "noslug">>

\* the index of the first TRUE of fails, 0 when there is none
FirstFailing(fails) ==
    IF \E i \in 1..Len(fails) : fails[i]
    THEN CHOOSE i \in 1..Len(fails) : fails[i] /\ \A j \in 1..(i - 1) : ~fails[j]
    ELSE 0

\* C1: is_single_post returns the reason of the first of the five checks
\* (root, pagination, archive, shallow, noslug) that fails, and accepts
\* exactly when none fails; an accepted URL ends in a non-empty segment
\* that is not purely numeric.
C1_FirstFailingCheckWins ==
    Classified =>
        LET first == FirstFailing(FailedChecks(url, min_path_depth))
            segs == NonEmptySegs(PathOf(url))
        IN  /\ first # 0 => answer.val = <<FALSE, CheckReasons[first]>>
            /\ first = 0 <=> answer.val = <<TRUE, "valid">>
            /\ answer.val[1] => segs # <<>> /\ ~IsDigit(segs[Len(segs)])

\* C1 witness: /my-post?page=2 on a host without blog subdomain, which has
\* a pagination key, matches the single-segment archive pattern and is too
\* shallow, was rejected as pagination.
C1_Witness ==
    /\ Classified
    /\ QueryOf(url) = <<"p","a","g","e","=","2">>
    /\ PathOf(url) = <<"/","m","y","-","p","o","s","t">>
    /\ ~has_subdomain(url)
    /\ matches_archive_pattern(url)
    /\ get_path_depth(url) < min_path_depth
    /\ answer.val = <<FALSE, "pagination">>

\* C2 (as claimed): a pagination key in the query, whatever its value, or a
\* /page/<digits> segment in the path is rejected as pagination.
C2_PaginationAlwaysRejected ==
    ( /\ Classified
      /\ \/ \E key \in PAGINATION_PARAMS : QueryHasKey(QueryOf(url), key)
         \/ PathHasPageSegment(PathOf(url)) )
    => answer.val = <<FALSE, "pagination">>

\* C3 (as claimed): a single non-empty, non-numeric segment is accepted on
\* a blog-subdomain host and rejected as archive on any other host.
C3_SingleSegmentByHostOnly ==
    ( Classified /\ SingleSegment(PathOf(url))
                 /\ ~IsDigit(TheSegment(PathOf(url))) )
    => answer.val = IF has_subdomain(url) THEN <<TRUE, "valid">>
                    ELSE <<FALSE, "archive">>

\* an archive pattern other than the bare single segment (index 1) matches
OtherArchivePattern(path) == \E i \in (0..9) \ {1} : ArchivePattern(i, path)

\* C3 (amended): a single non-empty, non-numeric segment is rejected as
\* pagination when the URL has pagination; otherwise it is rejected as
\* archive on a host without blog subdomain, and on a blog-subdomain host it
\* is accepted unless another archive pattern (/category/, /tag/, /author/,
\* /archive/, /search..., .../feed, .xml, .rss) matches: the exemption
\* disables the single-segment pattern only.
C3_SingleSegmentExemption ==
    ( Classified /\ SingleSegment(PathOf(url))
                 /\ ~IsDigit(TheSegment(PathOf(url))) )
    => answer.val =
         IF has_pagination(url) THEN <<FALSE, "pagination">>
         ELSE IF ~has_subdomain(url) THEN <<FALSE, "archive">>
         ELSE IF OtherArchivePattern(PathOf(url)) THEN <<FALSE, "archive">>
         ELSE <<TRUE, "valid">>

\* C3 witness: /my-post on a blog-subdomain host was accepted.
C3_Witness ==
    /\ Classified
    /\ has_subdomain(url)
    /\ PathOf(url) = <<"/","m","y","-","p","o","s","t">>
    /\ min_path_depth = 3
    /\ answer.val = <<TRUE, "valid">>

\* the path is made of '/' only and the query is empty
EmptyPathAndQuery(u) ==
    /\ \A i \in 1..Len(PathOf(u)) : PathOf(u)[i] = "/"
    /\ QueryOf(u) = <<>>

\* C4: is_root_domain is TRUE exactly for the URLs with empty path (or only
\* '/') and empty query, and is_single_post gives the root-domain reason
\* for exactly these URLs.
C4_RootDomainExactly ==
    /\ answer.op = "is_root_domain" => answer.val = <<EmptyPathAndQuery(url)>>
    /\ Classified =>
         (answer.val = <<FALSE, "root">> <=> EmptyPathAndQuery(url))

\* C4 witness: a URL whose path is "//" and whose query is empty was
\* rejected as root domain.
C4_Witness ==
    /\ Classified
    /\ PathOf(url) = <<"/","/">> /\ QueryOf(url) = <<>>
    /\ answer.val = <<FALSE, "root">>

----------------------------------------------------------------------------
(* Claims about the sitemap traversal.                                     *)

RootDoc == web[RootUrl]
Done == gen.pc = "done"

Min(a, b) == IF a < b THEN a ELSE b
Take(s, n) == SubSeq(s, 1, Min(n, Len(s)))
IsPrefix(x, y) == Len(x) <= Len(y) /\ SubSeq(y, 1, Len(x)) = x

\* x can be obtained from y by deleting elements
RECURSIVE IsSubsequence(_, _)
IsSubsequence(x, y) ==
    IF x = <<>> THEN TRUE
    ELSE IF y = <<>> THEN FALSE
    ELSE IF Head(x) = Head(y) THEN IsSubsequence(Tail(x), Tail(y))
    ELSE IsSubsequence(x, Tail(y))

\* the URLs pulled so far, and the child sitemaps fetched so far, in order
RECURSIVE UrlsOf(_)
UrlsOf(recs) == IF recs = <<>> THEN <<>> ELSE <<Head(recs).url>> \o UrlsOf(Tail(recs))
ReceivedUrls == UrlsOf(received)
FetchedChildren == UrlsOf(SelectSeq(fetched, LAMBDA r : r.ci >= 1))

\* the part of a URL after its last '/', lower-cased
RECURSIVE AfterLastSlash(_)
AfterLastSlash(u) ==
    IF u = <<>> \/ u[Len(u)] = "/" THEN <<>>
    ELSE AfterLastSlash(SubSeq(u, 1, Len(u) - 1)) \o <<LowerChar(u[Len(u)])>>
NamedPost(u) == Contains(AfterLastSlash(u), <<"p","o","s","t">>)

\* the children of the index that the claimed rule keeps, in index order:
\* (a) those named 'post' when there is one, else (b) those without any of
\* category, tag, author, user, page in their URL
Retained ==
    LET listed == RootDoc.children
        anyPost == \E i \in 1..Len(listed) : NamedPost(listed[i])
        keyword(u) == \E k \in IGNORE_KEYWORDS : Contains(Lower(u), k)
    IN  IF anyPost THEN SelectSeq(listed, NamedPost)
        ELSE SelectSeq(listed, LAMBDA u : ~keyword(u))

\* the locations of a document's <url> elements, in document order
RECURSIVE LocsOf(_)
LocsOf(elems) ==
    IF elems = <<>> THEN <<>>
    ELSE (IF Head(elems).has_loc THEN <<Head(elems).loc>> ELSE <<>>)
         \o LocsOf(Tail(elems))

Matches(u) == url_filter = <<>> \/ Contains(u, url_filter)

\* what one sitemap source contributes: its filter-matching entries when
\* it is a URL set that could be fetched, nothing otherwise
Contribution(u) ==
    IF web[u].kind = "urlset" THEN SelectSeq(LocsOf(web[u].urls), Matches)
    ELSE <<>>

\* the filter-matching entries of the retained sources, in traversal order
RECURSIVE ContributionsOf(_)
ContributionsOf(us) ==
    IF us = <<>> THEN <<>> ELSE Contribution(Head(us)) \o ContributionsOf(Tail(us))
AllMatching ==
    IF RootDoc.kind = "index" THEN ContributionsOf(Retained)
    ELSE Contribution(RootUrl)

\* the entries of the retained sources, unfiltered, in traversal order
RECURSIVE EntriesOf(_)
EntriesOf(us) ==
    IF us = <<>> THEN <<>>
    ELSE (IF web[Head(us)].kind = "urlset" THEN LocsOf(web[Head(us)].urls)
          ELSE <<>>) \o EntriesOf(Tail(us))
AllEntries ==
    IF RootDoc.kind = "index" THEN EntriesOf(Retained) ELSE EntriesOf(<<RootUrl>>)

\* the number of matching entries the retained children before the i-th hold
Before(i) == Len(ContributionsOf(SubSeq(Retained, 1, i - 1)))

\* the limit as the code applies it: only a max_urls of 1 or more limits
Limited(n) == max_urls # <<>> /\ max_urls[1] >= 1 /\ n >= max_urls[1]

\* the i-th retained child has been fetched
ChildFetched(i) ==
    Len(FetchedChildren) >= i /\ FetchedChildren[i] = Retained[i]

\* C5 (as claimed): for every supplied max_urls, 0 included, a traversal
\* yields exactly the first min(max_urls, N) of the N filter-matching
\* entries of the retained sources, and never more than max_urls entries.
C5_ExactlyMinOfLimitAndMatching ==
    max_urls # <<>> =>
        /\ Len(received) <= max_urls[1]
        /\ Done => ReceivedUrls = Take(AllMatching, max_urls[1])

\* C5 for the limits the code honours: with max_urls >= 1 a traversal
\* yields exactly the first min(max_urls, N) matching entries, and without
\* a limit all N.
LimitHonouredFromOne ==
    /\ (max_urls # <<>> /\ max_urls[1] >= 1) =>
          /\ Len(received) <= max_urls[1]
          /\ Done => ReceivedUrls = Take(AllMatching, max_urls[1])
    /\ (max_urls = <<>> /\ Done) => ReceivedUrls = AllMatching

C7_OrderPreserved ==
    /\ IsSubsequence(ReceivedUrls, AllEntries)
    /\ \A i \in 1..Len(received), j \in 1..Len(received) :
          i < j => \/ received[i].ci < received[j].ci
                   \/ /\ received[i].ci = received[j].ci
                      /\ received[i].ei < received[j].ei

\* C7 witness: three entries were pulled, from two different children.
C7_Witness ==
    /\ Len(received) = 3
    /\ received[1].ci # received[3].ci
    /\ received[1].url # received[2].url

\* C8 (as claimed): a failed fetch is never an error for the consumer; a
\* failed root gives zero entries and no further fetch; after a failed
\* child every later retained child is fetched and its entries yielded.
C8_LaterChildrenAlwaysTraversed ==
    /\ outcome # "error"
    /\ (Done /\ RootDoc.kind = "fail") =>
          received = <<>> /\ UrlsOf(fetched) = <<RootUrl>>
    /\ (Done /\ RootDoc.kind = "index") =>
          \A i \in 1..Len(Retained) :
             (ChildFetched(i) /\ web[Retained[i]].kind = "fail") =>
                \A j \in (i + 1)..Len(Retained) :
                   /\ ChildFetched(j)
                   /\ Len(received) >= Before(j + 1)

\* C8 (amended): a failed fetch is never an error for the consumer; a
\* failed root gives zero entries and no further fetch; a failed child
\* contributes no entry and does not end the traversal: the next retained
\* child is fetched in the same pull, and every later retained child is
\* fetched, and its matching entries yielded, as long as fewer than
\* max_urls entries have been yielded (max_urls absent or 0: all of them).
C8_FailureSkipsOneChildOnly ==
    /\ outcome # "error"
    /\ (Done /\ RootDoc.kind = "fail") =>
          received = <<>> /\ UrlsOf(fetched) = <<RootUrl>>
    /\ RootDoc.kind = "index" =>
          \A i \in 1..Len(Retained) :
             (ChildFetched(i) /\ web[Retained[i]].kind = "fail") =>
                /\ Before(i + 1) = Before(i)
                /\ i < Len(Retained) =>
                      /\ ChildFetched(i + 1)
                      /\ \E m, n \in 1..Len(fetched) :
                            /\ fetched[m].url = Retained[i]
                            /\ fetched[n].url = Retained[i + 1]
                            /\ fetched[m].pull = fetched[n].pull
                /\ Done =>
                      /\ \A j \in (i + 1)..Len(Retained) :
                            ChildFetched(j) <=> ~Limited(Before(j))
                      /\ ReceivedUrls =
                            IF Limited(Len(AllMatching))
                            THEN Take(AllMatching, max_urls[1])
                            ELSE AllMatching

\* C8 witness: the first child's fetch failed and the second child's entry
\* was pulled.
C8_Witness ==
    /\ RootDoc.children = <<PostSitemap, PostSitemap2>>
    /\ web[PostSitemap].kind = "fail"
    /\ FetchedChildren = <<PostSitemap, PostSitemap2>>
    /\ Len(received) >= 1

\* C9 (as claimed): no fetch before the first pull; fetches are issued only
\* inside a pull of a consumer that has not stopped; a child is fetched
\* only after every entry of the children before it has been pulled; and
\* once max_urls entries have been yielded no further fetch is issued.
C9_PullBased ==
    [][ /\ pulls = 0 => fetched = <<>>
        /\ fetched' # fetched => (~stopped /\ pulls' = pulls + 1)
        /\ \A n \in 1..Len(fetched'), k \in 1..Len(received') :
              received'[k].ci < fetched'[n].ci =>
                 received'[k].pull < fetched'[n].pull
        /\ (max_urls # <<>> /\ received # <<>>
                            /\ Len(received) >= max_urls[1]) =>
              fetched' = fetched ]_vars

\* C9 for the limits the code honours: the same with max_urls >= 1.
PullBasedFromOne ==
    [][ /\ pulls = 0 => fetched = <<>>
        /\ fetched' # fetched => (~stopped /\ pulls' = pulls + 1)
        /\ \A n \in 1..Len(fetched'), k \in 1..Len(received') :
              received'[k].ci < fetched'[n].ci =>
                 received'[k].pull < fetched'[n].pull
        /\ (max_urls # <<>> /\ max_urls[1] >= 1
                            /\ Len(received) >= max_urls[1]) =>
              fetched' = fetched ]_vars

----------------------------------------------------------------------------
(* Claims about scrape_from_sitemap.                                       *)

\* the consumer has just been handed an article: it may stop here
ArticleInHand == sgen.pc = "yield"

\* the candidate whose page gave the article in hand
CandidateInHand == sgen.valid_urls[sgen.i]

\* the sitemap fetches that exhausting
\* get_all_urls(sitemap_url, url_filter, max_urls = fetch_limit) issues
WholeTraversal ==
    Drain([sitemap_url |-> RootUrl, url_filter |-> url_filter,
           max_urls |-> fetch_limit(max_articles)], NewGen, <<>>, <<>>)

\* C10 (as claimed): when the consumer holds its k-th article, the only
\* fetches issued so far are those needed for these k articles: no page of
\* a later candidate has been fetched, and no sitemap document beyond those
\* that supplied the candidates examined so far has been fetched.
C10_OnlyFetchesNeededSoFar ==
    ArticleInHand =>
        /\ \A n \in 1..Len(page_fetched) : page_fetched[n].i <= sgen.i
        /\ \A n \in 1..Len(fetched) : fetched[n].ci <= CandidateInHand.ci

\* C10 (amended): nothing is fetched before the first pull; the first pull
\* performs the whole sitemap traversal, limited to 3 * max_articles
\* entries, and no later pull fetches a sitemap; pages are fetched on
\* demand: the candidates are fetched once each, in order, a candidate's
\* page is fetched only in a pull made after every article of the earlier
\* candidates was handed over, and when the consumer holds an article no
\* page of a later candidate has been fetched.
C10_PagesOnDemandSitemapsUpFront ==
    /\ pulls = 0 => (fetched = <<>> /\ page_fetched = <<>>)
    /\ \A n \in 1..Len(fetched) : fetched[n].pull = 1
    /\ pulls >= 1 =>
          \A whole \in {WholeTraversal.fetches} : UrlsOf(fetched) = UrlsOf(whole)
    /\ \A n \in 1..Len(page_fetched) :
          /\ page_fetched[n].i = n
          /\ page_fetched[n].url = sgen.valid_urls[n].url
    /\ \A n \in 1..Len(page_fetched), k \in 1..Len(articles) :
          articles[k].i < page_fetched[n].i =>
             articles[k].pull < page_fetched[n].pull
    /\ ArticleInHand =>
          /\ Len(page_fetched) = sgen.i
          /\ articles[Len(articles)].url = CandidateInHand.url

\* C10 witness: the consumer holds its first article and has stopped; a
\* later candidate is still unfetched, yet a child sitemap after the one
\* that supplied the article's candidate has been fetched.
C10_Witness ==
    /\ stopped
    /\ ArticleInHand
    /\ Len(articles) = 1
    /\ sgen.i < Len(sgen.valid_urls)
    /\ Len(page_fetched) = sgen.i
    /\ \E n \in 1..Len(fetched) : fetched[n].ci > CandidateInHand.ci

----------------------------------------------------------------------------
(* Claims about section segmentation.                                      *)

\* the position of the first h2 among the blocks, or one past the last block
FirstH2(blocks) ==
    IF \E i \in 1..Len(blocks) : blocks[i].name = "h2"
    THEN CHOOSE i \in 1..Len(blocks) :
            /\ blocks[i].name = "h2"
            /\ \A j \in 1..(i - 1) : blocks[j].name # "h2"
    ELSE Len(blocks) + 1

\* a paragraph, list or table that holds some text
HoldsText(b) ==
    \/ b.name = "p" /\ b.text # <<>>
    \/ b.name \in {"ul", "ol"} /\ \E k \in 1..Len(b.items) : b.items[k] # <<>>
    \/ b.name = "table" /\ \E r \in 1..Len(b.rows) :
                              \E c \in 1..Len(b.rows[r]) : b.rows[r][c] # <<>>

\* the same, tables left out
HoldsTextNoTable(b) == b.name # "table" /\ HoldsText(b)

\* the h2 blocks whose body, up to the next h2, is not blank, in order
H2Positions(blocks) ==
    SelectSeq([i \in 1..Len(blocks) |-> i], LAMBDA i : blocks[i].name = "h2")
NextH2(blocks, i) ==
    IF \E j \in (i + 1)..Len(blocks) : blocks[j].name = "h2"
    THEN CHOOSE j \in (i + 1)..Len(blocks) :
            /\ blocks[j].name = "h2"
            /\ \A k \in (i + 1)..(j - 1) : blocks[k].name # "h2"
    ELSE Len(blocks) + 1
BodyNotBlank(blocks, i) ==
    \E k \in (i + 1)..(NextH2(blocks, i) - 1) :
        HoldsText(blocks[k]) \/ blocks[k].name = "h3"
        \/ (blocks[k].name \in {"ul", "ol"} /\ blocks[k].items # <<>>)
HeadingsKept(blocks) ==
    LET kept == SelectSeq(H2Positions(blocks),
                          LAMBDA i : BodyNotBlank(blocks, i))
    IN  [n \in 1..Len(kept) |-> blocks[kept[n]].text]

Levels(secs) == [n \in 1..Len(secs) |-> secs[n].level]
Headings(secs) == [n \in 1..Len(secs) |-> secs[n].heading]

\* a leading paragraph and two h2 headings each followed by a paragraph
TwoHeadingArticle ==
    << P(<<"a">>), H2(<<"H">>), P(<<"a">>), H2(<<"H">>), P(<<"a">>) >>

\* what C11 says of the sections returned for blocks, intro being whether
\* the claim expects an introduction
SectionsAsClaimed(blocks, secs, intro) ==
    /\ intro => (secs # <<>> /\ secs[1].level = 0 /\ secs[1].heading = <<>>)
    /\ \A n \in 2..Len(secs) : secs[n].level = 2
    /\ \A n \in 1..Len(secs) : StripWs(secs[n].content) # <<>>
    /\ LET rest == IF secs # <<>> /\ secs[1].level = 0 THEN Tail(secs) ELSE secs
       IN  /\ \A n \in 1..Len(rest) : rest[n].level = 2
           /\ Headings(rest) = HeadingsKept(blocks)
    /\ blocks = TwoHeadingArticle => Levels(secs) = <<0, 2, 2>>

\* C11 (as claimed): the introduction (level 0, empty heading) comes first
\* whenever text precedes the first h2, then one level-2 section per h2 in
\* document order, a section being emitted only if its body is not blank;
\* a leading paragraph and two h2 each followed by text give levels
\* [0, 2, 2]; a level-0 section is never anywhere but first.
C11_IntroWheneverTextPrecedes ==
    sections.called =>
        SectionsAsClaimed(article_blocks, sections.val,
            \E i \in 1..(FirstH2(article_blocks) - 1) :
                HoldsText(article_blocks[i]))

\* C11 with the text of tables before the first h2 left out: what the code does
SectionsWithoutTableIntro ==
    sections.called =>
        SectionsAsClaimed(article_blocks, sections.val,
            \E i \in 1..(FirstH2(article_blocks) - 1) :
                HoldsTextNoTable(article_blocks[i]))

\* the example of C11 is reached
TwoHeadingArticleSegmented ==
    sections.called /\ article_blocks = TwoHeadingArticle

----------------------------------------------------------------------------
(* Claims about the validity check.                                        *)

RECURSIVE SumOf(_)
SumOf(lens) == IF lens = <<>> THEN 0 ELSE lens[1] + SumOf(Tail(lens))

\* the total the claim describes
ClaimedTotal(c) ==
    IF c.content_html # 0 THEN c.content_html ELSE SumOf(c.sections)

\* C12: the validity check takes total = the length of contentHtml if that
\* is non-zero, else the sum of the lengths of all section bodies, and
\* rejects with 'content too short' exactly when total < 100: 99 is
\* rejected, 100 is accepted.
C12_TooShortExactlyBelowHundred ==
    validity.called =>
        /\ validity.val[1] = ~(ClaimedTotal(content_dict) < 100)
        /\ ~validity.val[1] <=> validity.val[2] = "Content too short"
        /\ ClaimedTotal(content_dict) = 99 => ~validity.val[1]
        /\ ClaimedTotal(content_dict) = 100 => validity.val[1]

\* C12 witness: no contentHtml and section bodies of 50 and 50 characters,
\* a total of exactly 100, has been accepted.
C12_Witness ==
    /\ validity.called
    /\ content_dict.content_html = 0
    /\ content_dict.sections = <<50, 50>>
    /\ validity.val[1]

----------------------------------------------------------------------------
(* Claims about the records scrape_from_sitemap yields.                    *)

\* the page fetches that gave no article
FetchesWithoutArticle ==
    { n \in 1..Len(page_fetched) :
        \A k \in 1..Len(articles) : articles[k].i # page_fetched[n].i }

\* C13: every record yielded has contentHtml non-empty or sections
\* non-empty, its total extracted length being at least 100; and no record
\* is produced for a page whose fetch failed or whose content was rejected
\* as too short.
C13_RecordsHaveContent ==
    \A k \in 1..Len(articles) :
        /\ articles[k].content_html # 0 \/ articles[k].sections # <<>>
        /\ ClaimedTotal(articles[k]) >= 100
        /\ pages[articles[k].url].kind # "fail"
        /\ ClaimedTotal(pages[articles[k].url]) >= 100
        /\ articles[k].content_html = pages[articles[k].url].content_html
        /\ articles[k].sections = pages[articles[k].url].sections

\* C13 witness: a record with empty contentHtml and non-empty sections has
\* been yielded after a page that failed or was too short gave none.
C13_Witness ==
    /\ \E k \in 1..Len(articles) :
          articles[k].content_html = 0 /\ articles[k].sections # <<>>
    /\ \E n \in FetchesWithoutArticle :
          \E k \in 1..Len(articles) : page_fetched[n].i < articles[k].i

----------------------------------------------------------------------------
(* Claims about tag extraction.                                            *)

\* what each of the four strategies contributes, as sets
FromKeywords(s) ==
    IF s.keywords = <<>> THEN {}
    ELSE { StripWs(part) : part \in Range(Split(s.keywords[1], ",")) } \ { <<>> }
FromArticleTags(s) == { StripWs(c) : c \in Range(s.article_tags) \ { <<>> } }
FromTagLinks(s) == Range(s.tag_links) \ { <<>> }
FromContainers(s) ==
    { x \in UNION { Range(s.tag_containers[n]) : n \in 1..Len(s.tag_containers) } :
        x # <<>> /\ Len(x) < 50 }

\* the page of the example: keywords 'a, b, a' and one rel=tag anchor 'c'
ExampleSoup ==
    [keywords |-> << <<"a", ",", " ", "b", ",", " ", "a">> >>,
     article_tags |-> <<>>, tag_links |-> << <<"c">> >>, tag_containers |-> <<>>]

\* C14: extract_tags returns the duplicate-free union of what the four
\* strategies contribute: a string contributed several times appears
\* exactly once and every string contributed appears; keywords 'a, b, a'
\* and one rel=tag anchor 'c' give the set {a, b, c}.
C14_DuplicateFreeUnion ==
    tags.called =>
        /\ Range(tags.val) = FromKeywords(page_soup) \cup FromArticleTags(page_soup)
                             \cup FromTagLinks(page_soup)
                             \cup FromContainers(page_soup)
        /\ \A i, j \in 1..Len(tags.val) : i # j => tags.val[i] # tags.val[j]
        /\ page_soup = ExampleSoup =>
              Range(tags.val) = { <<"a">>, <<"b">>, <<"c">> } /\ Len(tags.val) = 3

\* C14 witness: the example page has given its three tags.
C14_Witness ==
    /\ tags.called
    /\ page_soup = ExampleSoup
    /\ Len(tags.val) = 3

----------------------------------------------------------------------------
(* Claims about repeated traversal.                                        *)

AbandonedThenRetraversed ==
    /\ runs = 2
    /\ Done
    /\ ~earlier.complete
    /\ earlier.entries # <<>>
    /\ Len(received) > Len(earlier.entries)

----------------------------------------------------------------------------
(* Claims about the workers and the shared history.                        *)

\* C16: with duplicate prevention enabled, each article URL is handed to
\* ArticleStorage.save at most once over the whole run, whichever worker
\* and whichever cycle reaches it.
C16_SavedAtMostOnce ==
    prevent_duplicates => \A u \in WorkerArticleUrls : saved[u] <= 1

\* C17: no two workers are inside HistoryManager.mark_scraped at once, no
\* two have the history file open for writing at once, and whenever no
\* worker is inside mark_scraped the file holds the whole set.
C17_MarkScrapedGuarded ==
    /\ Cardinality({ w \in Workers : threads[w].pc \in InMarkScraped }) <= 1
    /\ Cardinality(history_file.writers) <= 1
    /\ (\A w \in Workers : threads[w].pc \notin InMarkScraped)
            => history_file.urls = scraped_urls

----------------------------------------------------------------------------
(* Claims about the limit of scrape_from_sitemap.                          *)

\* C18: whenever max_articles is a number, 0 included, scrape_from_sitemap
\* yields at most that many articles and fetches at most that many pages.
C18_AtMostMaxArticles ==
    max_articles # <<>> =>
        /\ Len(articles) <= max_articles[1]
        /\ Len(page_fetched) <= max_articles[1]

\* the limit is kept for every limit of at least one
AtMostMaxArticlesFromOne ==
    (max_articles # <<>> /\ max_articles[1] >= 1) =>
        /\ Len(articles) <= max_articles[1]
        /\ Len(page_fetched) <= max_articles[1]

----------------------------------------------------------------------------
(* Claims about failing candidates of scrape_from_sitemap.                 *)

\* a candidate whose fetch and content validation succeed
Succeeds(u) == pages[u].kind = "page" /\ ClaimedTotal(pages[u]) >= 100

\* the candidates the scrape loop has been through: all of them once the
\* generator has ended, those up to the one just yielded before that
CandidatesDone ==
    SubSeq(UrlsOf(sgen.valid_urls), 1,
           IF sgen.pc = "done" THEN Len(sgen.valid_urls)
           ELSE IF sgen.pc = "yield" THEN sgen.i ELSE 0)

\* C19: a candidate whose page fetch fails or whose content is too short
\* gives no record and raises nothing, and the candidates after it are
\* still processed: every candidate gone through was fetched once, in
\* order, and the articles yielded are exactly those of the candidates
\* whose fetch and validation succeed, in candidate order.
C19_FailuresSkippedRestProcessed ==
    /\ UrlsOf(page_fetched) = CandidatesDone
    /\ UrlsOf(articles) = SelectSeq(CandidatesDone, Succeeds)
    /\ sgen.valid_urls # <<>> => outcome # "error"

\* C19 witness: the generator has ended after a candidate whose fetch
\* failed and a later candidate that gave an article.
C19_Witness ==
    /\ sgen.pc = "done"
    /\ \E n, m \in 1..Len(sgen.valid_urls) :
          /\ n < m
          /\ pages[sgen.valid_urls[n].url].kind = "fail"
          /\ \E k \in 1..Len(articles) : articles[k].i = m

----------------------------------------------------------------------------
(* Claims about the path depth.                                            *)

\* the minimum the claim requires: 1 on a blog-subdomain host, else the
\* caller's min_path_depth
RequiredDepth(u, minDepth) == IF has_subdomain(u) THEN 1 ELSE minDepth

\* the URL passes the root, pagination and archive checks
PassesEarlierChecks(u) ==
    ~is_root_domain(u) /\ ~has_pagination(u) /\ ~matches_archive_pattern(u)

\* C20: the path depth is the number of non-empty '/'-separated segments
\* of the path, the required minimum is 1 on a blog-subdomain host and
\* min_path_depth otherwise, and a URL that passes the root, pagination
\* and archive checks is rejected as too shallow exactly when that depth
\* is below the required minimum.
C20_DepthCountsNonEmptySegments ==
    (Classified /\ PassesEarlierChecks(url)) =>
        ( answer.val = <<FALSE, "shallow">>
            <=> Len(NonEmptySegs(PathOf(url)))
                    < RequiredDepth(url, min_path_depth) )

\* the same with the depth the code counts: the segments of the path
\* stripped of its leading and trailing slashes, empty ones included
ShallowByStrippedSegments ==
    (Classified /\ PassesEarlierChecks(url)) =>
        ( answer.val = <<FALSE, "shallow">>
            <=> (IF Strip(PathOf(url), "/") = <<>> THEN 0
                 ELSE Len(Split(Strip(PathOf(url), "/"), "/")))
                    < RequiredDepth(url, min_path_depth) )

----------------------------------------------------------------------------
(* Claims about the URL filter of the traversal.                           *)

\* the entries the generator has counted: those it yielded and was resumed
\* after
EntriesCounted == Len(received) - (IF gen.pc = "yield" THEN 1 ELSE 0)

\* C21: with a url_filter every entry yielded matches it; an entry that
\* does not match is dropped and not counted toward max_urls; and it never
\* stops the traversal: when the traversal has ended, every matching entry
\* of the retained sources has been yielded, up to max_urls of them.
C21_FilterDropsWithoutCounting ==
    url_filter # <<>> =>
        /\ \A k \in 1..Len(received) : Contains(received[k].url, url_filter)
        /\ gen.count = EntriesCounted
        /\ (Done /\ max_urls = <<>>) => ReceivedUrls = AllMatching
        /\ (Done /\ max_urls # <<>> /\ max_urls[1] >= 1) =>
              ReceivedUrls = Take(AllMatching, max_urls[1])

\* C21 witness: of a URL set listing tag/news, my-post and other-post, the
\* filter 'post' and a limit of 2 gave my-post and other-post.
C21_Witness ==
    /\ Done
    /\ url_filter = <<"p","o","s","t">>
    /\ max_urls = <<2>>
    /\ RootDoc = UrlsetC
    /\ ReceivedUrls = <<PageMyPost, PageOtherPost>>

----------------------------------------------------------------------------
(* Claims about the depth of the traversal.                                *)

\* the fetch that brought the document the k-th entry pulled came from
SourceOf(k) ==
    CHOOSE n \in 1..Len(fetched) : fetched[n].ci = received[k].ci

----------------------------------------------------------------------------
(* Claims about repeated fetches.                                          *)

\* no two records of a fetch log name the same URL
UrlsDistinct(log) ==
    \A m, n \in 1..Len(log) : m # n => log[m].url # log[n].url

\* C23 (as claimed): within one scrape-many run no sitemap URL and no page
\* URL is fetched a second time, whether its first fetch succeeded or
\* failed.
C23_NoUrlFetchedTwice ==
    /\ UrlsDistinct(fetched)
    /\ UrlsDistinct(page_fetched)

\* C23 (amended): no fetch is retried.  The root is fetched once; each
\* listing of a child in the index is fetched at most once, in index
\* order; each candidate has its page fetched at most once, in candidate
\* order, whether the fetch succeeds or fails.  A URL is fetched a second
\* time only where the index or the candidate list names it a second time.
C23_NoListingFetchedTwice ==
    /\ \A m, n \in 1..Len(fetched) : m < n => fetched[m].ci < fetched[n].ci
    /\ \A n \in 1..Len(fetched) :
          fetched[n].url = IF fetched[n].ci = 0 THEN RootUrl
                           ELSE RootDoc.children[fetched[n].ci]
    /\ \A m, n \in 1..Len(page_fetched) :
          m < n => page_fetched[m].i < page_fetched[n].i
    /\ \A n \in 1..Len(page_fetched) :
          page_fetched[n].url = sgen.valid_urls[page_fetched[n].i].url

\* C23 witness: a page whose fetch fails is named by two candidates and has
\* been fetched for each of them, once.
C23_Witness ==
    /\ sgen.pc = "done"
    /\ \E m, n \in 1..Len(page_fetched) :
          /\ m < n
          /\ page_fetched[m].url = page_fetched[n].url
          /\ pages[page_fetched[m].url].kind = "fail"

----------------------------------------------------------------------------
(* Claims about classification and fetching.                               *)

\* the page URLs the classifier of a Scraper built with the default
\* min_path_depth accepts
AcceptedPageUrls ==
    { u \in PageUrls : is_single_post(u, DEFAULT_MIN_PATH_DEPTH)[1] }

\* the URL classifier accepts the URL
Accepted(u) == min_path_depth = DEFAULT_MIN_PATH_DEPTH /\ u \in AcceptedPageUrls

\* C24: a page fetch is issued only for a URL the classifier accepted.  In
\* scrape_from_sitemap every page fetched and every article yielded has an
\* accepted URL; a call of scrape with validate_url set fetches nothing
\* and returns no article for a URL the classifier rejects.
C24_ClassifiedBeforeFetched ==
    /\ \A n \in 1..Len(page_fetched) : Accepted(page_fetched[n].url)
    /\ \A k \in 1..Len(articles) : Accepted(articles[k].url)
    /\ (scrape_call.called /\ scrape_call.validate_url) =>
          /\ \A n \in 1..Len(scrape_call.page_fetches) :
                Accepted(scrape_call.page_fetches[n])
          /\ ~Accepted(scrape_call.url) =>
                scrape_call.page_fetches = <<>> /\ scrape_call.article = <<>>

\* C24 witness: scrape with validation was called on the rejected tag/news
\* and fetched nothing, and scrape_from_sitemap ended having fetched a page
\* although its sitemap lists tag/news as well.
C24_Witness ==
    /\ scrape_call.called /\ scrape_call.validate_url
    /\ scrape_call.url = PageTagNews
    /\ scrape_call.page_fetches = <<>>
    /\ sgen.pc = "done"
    /\ page_fetched # <<>>
    /\ \E n \in 1..Len(sgen.all_entries) : sgen.all_entries[n].url = PageTagNews

----------------------------------------------------------------------------
(* Claims about the blocks inside a section.                               *)

\* the loop of _extract_sections after its first n blocks
SegmentedUpTo(blocks, n) ==
    SectionLoop(SubSeq(blocks, 1, n), 1,
        [intro_parts |-> <<>>, current_section |-> <<>>, sections |-> <<>>])

\* the sub-heading marker line of an h3
SubHeadingMarker(text) == <<"\n", "\n", "#", "#", "#", " ">> \o text \o <<"\n">>

\* the h3 blocks that come after an h2
H3AfterH2(blocks) ==
    { i \in 1..Len(blocks) :
        blocks[i].name = "h3" /\ \E j \in 1..(i - 1) : blocks[j].name = "h2" }

\* the most recent h2 before block i
LastH2Before(blocks, i) ==
    CHOOSE j \in 1..(i - 1) :
        /\ blocks[j].name = "h2"
        /\ \A k \in (j + 1)..(i - 1) : blocks[k].name # "h2"

\* C25: an h3 after an h2 never opens, closes or emits a section: the loop
\* turn that handles it leaves the emitted sections, their order and the
\* introduction as they were, keeps the section of the most recent h2 open,
\* and appends only the sub-heading marker line to that section's body;
\* the sections returned have level 0 or 2 only, are no more than the h2
\* blocks (plus the introduction), and the section of that h2 is returned
\* with the marker in its body.
C25_H3OnlyAppendsMarker ==
    sections.called =>
        \A i \in H3AfterH2(article_blocks) :
            \A before \in {SegmentedUpTo(article_blocks, i - 1)},
               after \in {SegmentedUpTo(article_blocks, i)},
               h2 \in {article_blocks[LastH2Before(article_blocks, i)]} :
                /\ after.sections = before.sections
                /\ after.intro_parts = before.intro_parts
                /\ before.current_section # <<>>
                /\ after.current_section # <<>>
                /\ after.current_section[1].heading = h2.text
                /\ after.current_section[1].level = 2
                /\ after.current_section[1].content =
                      before.current_section[1].content
                         \o SubHeadingMarker(article_blocks[i].text)
                /\ \A n \in 1..Len(sections.val) :
                      sections.val[n].level \in {0, 2}
                /\ Len(SelectSeq(sections.val, LAMBDA sec : sec.level = 2))
                      <= Len(H2Positions(article_blocks))
                /\ \E n \in 1..Len(sections.val) :
                      /\ sections.val[n].level = 2
                      /\ sections.val[n].heading = h2.text
                      /\ Contains(sections.val[n].content,
                                  SubHeadingMarker(article_blocks[i].text))

\* C25 witness: h2, paragraph, h3, paragraph were segmented into the one
\* section of the h2, whose body holds both paragraphs around the marker.
C25_Witness ==
    /\ sections.called
    /\ article_blocks = << H2(<<"H">>), P(<<"a">>), H3(<<"s">>), P(<<"a">>) >>
    /\ sections.val =
          << ContentSection(<<"H">>,
                <<"\n", "a">> \o SubHeadingMarker(<<"s">>) \o <<"\n", "a">>, 2) >>

\* the text a paragraph, list or table contributes
BlockText(b) ==
    IF b.name = "p" THEN b.text
    ELSE IF b.name \in {"ul", "ol"} THEN ListText(b)
    ELSE _extract_table_text(b)

\* C26: every paragraph, list and table that holds text has it in the body
\* of the section open at that point, or, before the first h2, in the
\* introduction section, which is then returned first; so the rows of a
\* table before the first h2 appear in the introduction.
C26_TextToOpenSectionOrIntro ==
    sections.called =>
        \A i \in 1..Len(article_blocks) :
            \A b \in {article_blocks[i]} :
                (b.name \in {"p", "ul", "ol", "table"} /\ HoldsText(b)) =>
                    IF i < FirstH2(article_blocks)
                    THEN /\ sections.val # <<>>
                         /\ sections.val[1].level = 0
                         /\ Contains(sections.val[1].content, BlockText(b))
                    ELSE \E n \in 1..Len(sections.val) :
                            /\ sections.val[n].level = 2
                            /\ sections.val[n].heading =
                                  article_blocks[LastH2Before(article_blocks, i)].text
                            /\ Contains(sections.val[n].content, BlockText(b))

\* C26 for paragraphs and lists anywhere and for tables after an h2
TextToOpenSectionOrIntroButTables ==
    sections.called =>
        \A i \in 1..Len(article_blocks) :
            \A b \in {article_blocks[i]} :
                (/\ b.name \in {"p", "ul", "ol", "table"}
                 /\ HoldsText(b)
                 /\ (b.name = "table" => i > FirstH2(article_blocks))) =>
                    IF i < FirstH2(article_blocks)
                    THEN /\ sections.val # <<>>
                         /\ sections.val[1].level = 0
                         /\ Contains(sections.val[1].content, BlockText(b))
                    ELSE \E n \in 1..Len(sections.val) :
                            /\ sections.val[n].level = 2
                            /\ sections.val[n].heading =
                                  article_blocks[LastH2Before(article_blocks, i)].text
                            /\ Contains(sections.val[n].content, BlockText(b))

----------------------------------------------------------------------------
(* Claims about the cleaned HTML.                                          *)

\* the block is empty after text-trimming: blank text, a list with no item
\* that holds text, a table with no cell
EmptyAfterTrimming(b) ==
    IF b.name \in {"ul", "ol"} THEN \A k \in 1..Len(b.items) : b.items[k] = <<>>
    ELSE IF b.name = "table" THEN \A r \in 1..Len(b.rows) : b.rows[r] = <<>>
    ELSE b.text = <<>>

\* the blocks that are not empty after text-trimming, in order
NonEmptyBlocks(blocks) == SelectSeq(blocks, LAMBDA b : ~EmptyAfterTrimming(b))

\* C27: an element that is empty after text-trimming contributes nothing to
\* contentHtml: the result is that of the content area without its empty
\* blocks, and a content area of empty blocks only gives contentHtml of
\* length 0.
C27_EmptyElementsDropped ==
    html_content.called =>
        /\ html_content.val = _extract_html_content(NonEmptyBlocks(article_blocks))
        /\ NonEmptyBlocks(article_blocks) = <<>> => Len(html_content.val) = 0

\* C27 for paragraphs, headings and blockquotes: the empty ones of these
\* contribute nothing, lists and tables being taken as they are
EmptyTextElementsDropped ==
    html_content.called =>
        html_content.val =
            _extract_html_content(
                SelectSeq(article_blocks,
                    LAMBDA b : b.name \in {"ul", "ol", "table"}
                               \/ ~EmptyAfterTrimming(b)))

----------------------------------------------------------------------------
(* Claims about the workers' saves, cycles and shutdown.                   *)

\* C28: a URL is recorded in the scraped history only after its article was
\* saved successfully: a worker is inside mark_scraped only with a save
\* that returned true, and while the sink refuses every record (storage.save
\* returns false) no URL enters the history, so every URL stays eligible.
C28_MarkedOnlyAfterSuccessfulSave ==
    /\ \A w \in Workers :
          threads[w].pc \in InMarkScraped => threads[w].ok
    /\ ~storage_ok => scraped_urls = {}

\* what the code does: a URL enters the history only after storage.save was
\* called for it, whatever the call returned
MarkedOnlyAfterSaveCalled ==
    \A u \in scraped_urls : saved[u] > 0

\* the step starts a cycle of worker w
StartsCycle(w) == threads'[w].cycle > threads[w].cycle

\* the step starts one of the configured URLs of worker w
StartsUrl(w) ==
    threads[w].pc = "urls" /\ threads'[w].pc \in {"scrape", "articles"}

\* the step takes a further article of a sitemap to the save
StartsSave(w) == threads[w].pc = "articles" /\ threads'[w].pc = "save"

\* the cycles after which the model follows one more
EarlierCycles == 1..(MaxCycles - 1)

\* C29: a DomainWorker runs cycle after cycle until stopped: an exception
\* raised inside a cycle takes it back to its run loop, not out of it, and
\* the next cycle starts unless the worker was stopped; once stop() has
\* been called the worker starts no new cycle, no further configured URL
\* and no further save, and when its calls return it leaves the run loop
\* and terminates.
C29_CyclesSurviveExceptionsStopTerminates ==
    /\ [][\A w \in Workers :
            /\ (threads[w].pc \in MayRaise /\ threads'[w].raised) =>
                  threads'[w].pc = "run"
            /\ (is_alive(w) /\ ~threads[w].running) =>
                  ~StartsCycle(w) /\ ~StartsUrl(w) /\ ~StartsSave(w)
            /\ (threads[w].pc # "stopped" /\ threads'[w].pc = "stopped") =>
                  ~threads[w].running]_vars
    /\ \A w \in Workers : \A k \in EarlierCycles :
          (threads[w].raised /\ threads[w].cycle = k)
             ~> (threads[w].cycle = k + 1 \/ ~threads[w].running)
    /\ \A w \in Workers : \A k \in EarlierCycles :
          (threads[w].pc = "urls" /\ threads[w].cycle = k)
             ~> (threads[w].cycle = k + 1 \/ ~threads[w].running)
    /\ \A w \in Workers :
          (is_alive(w) /\ ~threads[w].running) ~> threads[w].pc = "stopped"

\* C29 witness: without a history, the worker of the single URL is past a
\* first cycle in which its call raised (nothing was saved), has run a
\* second cycle, and both workers, stopped, have left their run loops.
C29_Witness ==
    /\ ~prevent_duplicates
    /\ threads["Worker-a"].cycle = 2
    /\ saved[PageMyPost] = 0
    /\ \A w \in Workers : ~threads[w].running /\ threads[w].pc = "stopped"

\* the workers start() has created and started so far
StartedWorkers == { manager.workers[n] : n \in 1..Len(manager.workers) }

\* C30: stop() stops all workers at whatever point the signal arrives, also
\* while start() is still creating workers: once stop() has run, every
\* worker the manager has started, before or after, has running = false,
\* and the manager's running flag is false.
C30_StopHoldsDuringStart ==
    manager.stopped =>
        /\ \A w \in StartedWorkers : ~threads[w].running
        /\ ~manager.running

====
